---- MODULE Spec2Model ----
(***************************************************************************)
(* Library persistence of Flow-Library (src/types.ts holds the App         *)
(* component): the in-memory snapshot (books, notes), the reader state,    *)
(* the batch-delete selection, the IndexedDB blob store behind             *)
(* saveBookData / getBookData / deleteBookData, and the asynchronous       *)
(* handlers of App.  An async handler runs in segments: the code up to an  *)
(* `await` is one step, the continuation after it another.  A suspended    *)
(* handler is a record in `tasks` that holds what its closure captured     *)
(* when the handler was called (React handlers read the state of the       *)
(* render they were created in, functional updates read the latest state). *)
(***************************************************************************)
EXTENDS Integers, Sequences, FiniteSets, Bags, TLC

\* ------------------------------------------------------------------ bounds
MaxBooks == 2      \* documents ever uploaded (ids 1..MaxBooks, never reused)
MaxTasks == 2      \* async handlers suspended at the same time
MaxNotes == 1      \* notes ever saved
MaxCats == 2       \* categories ever created
MaxSearches == 2   \* calls of handleSearch
MaxTimers == 2     \* 3000 ms timeouts pending at the same time
MaxShelf == 3      \* documents of a library saved by an earlier session

\* ------------------------------------------------------------- basic types
Null == << >>
Some(x) == << x >>

BookStatus == {"next", "reading", "paused", "completed", "discarded"}

\* The statuses the user picks in the settings panel of the model.
EditStatuses == {"paused"}

ViewState == {"LIBRARY", "READER", "NOTES", "CATEGORIES"}

PdfType == "application/pdf"

\* A file name is a sequence of tokens; ".pdf" is the token replace() looks for.
FileA == [name |-> << "a", ".pdf" >>, type |-> PdfType]
FileB == [name |-> << "b", ".pdf" >>, type |-> PdfType]
FileN == [name |-> << "n", ".txt" >>, type |-> "text/plain"]

\* The batches the user picks in the file input.
FileLists == { << FileA >>, << FileN >>, << FileN, FileA >>, << FileA, FileB >> }

\* What the search input holds when the search is run.
Queries ==
  { << >>, << " ", "\t" >>, << "o", "c", "e", "a", "n" >>, << "T", "H", "E" >>,
    << "n", " ", "t" >> }

\* What the search input holds when a search result is clicked: the text the
\* highlight looks for on the page.
Targets ==
  { << "T", "H", "E" >>,
    << "t", "h", "e", " ", "E", "L", "E", "P", "H", "A", "N", "T", " ", "\n", "s", "a", "t", " " >>,
    << "e", "l", "e", "p", "h" >>,
    << "c", "a", "t" >>,
    << " ", "c", "a", "t", "s", "\t", "n", "a", "p" >>,
    << "t", "h", "e", "n" >> }

\* What the selects and the stars of the settings panel pass to
\* updateBookMetadata (lines 1242, 1260, 1282).
MetadataUpdates == { [status |-> "paused"], [category |-> Null], [rating |-> 3] }

\* What the note panel holds when Save is pressed in the note panel on its own.
NotePanelInputs == { << "", "" >>, << "", "s" >>, << "t", "" >>, << "t", "s" >> }

\* What the page input holds when Enter is pressed or the input loses focus.
PageInputs ==
  { << >>, << "x" >>, << "0" >>, << "-", "1" >>, << "2" >>, << " ", "3", "x" >>,
    << "9" >> }

\* What the category input holds when a category is added.
CategoryNames == { << " " >>, << " ", "S", " " >> }

\* What the note panel holds when Save is pressed: << noteText, selection >>
\* ("" is the empty string).
NoteInputs == { << "", "" >>, << "", "s" >> }

\* ------------------------------------------------------------------ state
VARIABLES
  books,             \* useState<Book[]>
  notes,             \* useState<Note[]>
  view,              \* useState<ViewState>
  currentBook,       \* useState<Book | null>
  currentBookData,   \* useState<ArrayBuffer | null>: the id whose payload it is
  pageNumber,        \* useState(1)
  numPages,          \* useState<number>(0)
  booksToDelete,     \* useState<Set<string>>: a JS Set, in insertion order
  isDeleteModalOpen, \* useState(false)
  toast,             \* useState<{message, type} | null>
  blobs,             \* IndexedDB store of ./utils/db: ids that have a payload
  tasks,             \* bag of the suspended async handlers
  nextId,            \* crypto.randomUUID() for books: next unused id
  nextNoteId,        \* crypto.randomUUID() for notes: next unused id
  categories,        \* useState<Category[]>
  nextCatId,         \* crypto.randomUUID() for categories: next unused id
  loadingPdf,        \* the payload <Document> of react-pdf is still loading, or Null
  searchQuery,       \* useState(''): a string is the sequence of its characters
  isSearching,       \* useState(false)
  searchResults,     \* useState<{page, text}[]>
  searchCalls,       \* the calls of handleSearch so far, in order (a history)
  temporaryHighlight,\* useState<string | null>
  passTimer,         \* the 300 ms timeout of the highlight effect is pending
  expiryTimers,      \* the pending 3000 ms timeouts, oldest first
  marked,            \* spans of the rendered page with class temporary-highlight
  groupingMode,      \* useState<GroupingMode>('none')
  sortMode,          \* useState<SortMode>('recent')
  storage,           \* localStorage: the entries library_books, _notes, _categories
  boot               \* where the first mount of App is: its effects, the re-render

libVars == << books, notes >>
readerVars == << view, currentBook, currentBookData, pageNumber, numPages >>
batchVars == << booksToDelete, isDeleteModalOpen >>
catVars == << categories, nextCatId >>
searchVars == << searchQuery, isSearching, searchResults, searchCalls >>
hlVars == << temporaryHighlight, passTimer, expiryTimers, marked >>
prefVars == << groupingMode, sortMode >>
vars == << books, notes, view, currentBook, currentBookData, pageNumber, numPages,
           booksToDelete, isDeleteModalOpen, toast, blobs, tasks, nextId, nextNoteId,
           categories, nextCatId, loadingPdf, searchQuery, isSearching, searchResults,
           searchCalls, temporaryHighlight, passTimer, expiryTimers, marked,
           groupingMode, sortMode, storage, boot >>

\* ---------------------------------------------------------------- helpers
BookIds(bs) == { bs[k].id : k \in DOMAIN bs }

SeqToSet(s) == { s[k] : k \in DOMAIN s }

\* books.find(b => b.id === id)
FindBook(bs, id) ==
  LET idx == { k \in DOMAIN bs : bs[k].id = id }
  IN  IF idx = {} THEN Null
      ELSE Some(bs[CHOOSE k \in idx : \A j \in idx : k <= j])

\* prev.filter(b => b.id !== id)
WithoutBook(bs, id) == SelectSeq(bs, LAMBDA b : b.id # id)

\* The cascade left out: the notes stay as they are.
WithoutNotesOf_NoCascade(ns, id) == ns

\* prev.filter(n => n.bookId !== id)
WithoutNotesOf(ns, id) == SelectSeq(ns, LAMBDA n : n.bookId # id)

\* prev.filter(b => !booksToDelete.has(b.id))
WithoutBooksIn(bs, ids) == SelectSeq(bs, LAMBDA b : b.id \notin ids)

\* prev.filter(n => !booksToDelete.has(n.bookId))
WithoutNotesIn(ns, ids) == SelectSeq(ns, LAMBDA n : n.bookId \notin ids)

\* { ...b, ...updates }
Merge(b, updates) ==
  [ k \in DOMAIN b |-> IF k \in DOMAIN updates THEN updates[k] ELSE b[k] ]

\* prev.map(b => b.id === id ? { ...b, ...updates } : b)
MapMerge(bs, id, updates) ==
  [ k \in DOMAIN bs |-> IF bs[k].id = id THEN Merge(bs[k], updates) ELSE bs[k] ]

\* a || b on numbers: 0 is falsy
JsOr(a, b) == IF a # 0 THEN a ELSE b

\* file.name.replace('.pdf', ''): the first occurrence only
RECURSIVE ReplacePdf(_)
ReplacePdf(name) ==
  IF name = << >> THEN << >>
  ELSE IF Head(name) = ".pdf" THEN Tail(name)
  ELSE << Head(name) >> \o ReplacePdf(Tail(name))

\* The index of the first file at or after i that is a PDF, Len(files)+1 if none:
\* `if (file.type !== 'application/pdf') continue;`
RECURSIVE NextPdf(_, _)
NextPdf(files, i) ==
  IF i > Len(files) THEN i
  ELSE IF files[i].type # PdfType THEN NextPdf(files, i + 1)
  ELSE i

PdfCountFrom(files, i) ==
  Cardinality({ k \in i..Len(files) : files[k].type = PdfType })

\* showToast(message, type); the message is its template and its arguments.
Toast(message, type) == Some([message |-> message, type |-> type])

\* ------------------------------------------------------------------ strings
\* A string of the search and highlight code is the sequence of its UTF-16 code
\* units, each a one-unit token: letters, " ", "\t", "\n", and "U+0130" (capital
\* I with dot above, whose lower case is the two units "i" "U+0307").
LowerTable ==
  [ A |-> "a", C |-> "c", E |-> "e", H |-> "h", L |-> "l", N |-> "n", O |-> "o",
    P |-> "p", S |-> "s", T |-> "t" ]

LowerChar(c) ==
  IF c \in DOMAIN LowerTable THEN << LowerTable[c] >>
  ELSE IF c = "U+0130" THEN << "i", "U+0307" >>
  ELSE << c >>

\* Math.min, Math.max
Min(a, b) == IF a < b THEN a ELSE b
Max(a, b) == IF a > b THEN a ELSE b

\* str.toLowerCase()
RECURSIVE ToLowerCase(_)
ToLowerCase(str) ==
  IF str = << >> THEN << >> ELSE LowerChar(Head(str)) \o ToLowerCase(Tail(str))

\* The characters \s matches and trim() removes.
WhiteSpace == { " ", "\t", "\n" }

\* str.trim()
RECURSIVE TrimStart(_)
TrimStart(str) ==
  IF str # << >> /\ Head(str) \in WhiteSpace THEN TrimStart(Tail(str)) ELSE str

RECURSIVE TrimEnd(_)
TrimEnd(str) ==
  IF str # << >> /\ str[Len(str)] \in WhiteSpace
  THEN TrimEnd(SubSeq(str, 1, Len(str) - 1))
  ELSE str

Trim(str) == TrimEnd(TrimStart(str))

\* haystack.indexOf(needle), from position `from` on (0-based); -1 when absent.
RECURSIVE IndexOfFrom(_, _, _)
IndexOfFrom(haystack, needle, from) ==
  IF from + Len(needle) > Len(haystack) THEN -1
  ELSE IF SubSeq(haystack, from + 1, from + Len(needle)) = needle THEN from
  ELSE IndexOfFrom(haystack, needle, from + 1)

IndexOf(haystack, needle) == IndexOfFrom(haystack, needle, 0)

\* haystack.includes(needle)
Includes(haystack, needle) == IndexOf(haystack, needle) # -1

\* str.substring(start, end): the bounds clamped to the string, and swapped when
\* start > end.
Substring(str, start, end) ==
  LET a == Max(0, Min(start, Len(str)))
      b == Max(0, Min(end, Len(str)))
  IN  SubSeq(str, Min(a, b) + 1, Max(a, b))

\* items.join(' ')
RECURSIVE Join(_)
Join(items) ==
  IF items = << >> THEN << >>
  ELSE IF Len(items) = 1 THEN items[1]
  ELSE items[1] \o << " " >> \o Join(Tail(items))

\* ----------------------------------------------------------- the blob store
\* ./utils/db is not among the sources: the store is the keyed large-object store
\* of the specification (put, get, delete by document id), a call that succeeds
\* taking effect when its promise resolves and a call that fails leaving the
\* store as it was.  Calls complete in any order.
SaveBookData(store, id) == store \cup { id }
DeleteBookData(store, id) == store \ { id }
GetBookData(store, id) == IF id \in store THEN Some(id) ELSE Null

\* ------------------------------------------------------- the PDF payloads
\* What pdfjs and react-pdf make of a payload: its pages, each the sequence of
\* its text items (`textContent.items[k].str`, one span of the text layer each).
BigPages == 52     \* pages of the long document

Pad(n) == [ k \in 1..n |-> "x" ]

Ocean == << "o", "c", "e", "a", "n" >>
OceanCap == << "O", "c", "e", "a", "n" >>
The == << "T", "h", "e" >>
Elephant == << "E", "l", "e", "p", "h", "a", "n", "t" >>
Sat == << "s", "a", "t" >>

PdfSmallA ==
  << << The, Elephant, Sat >>,
     << << "c", "a", "t" >>, << "c", "a", "t", "s", " ", "\t", "n", "a", "p" >> >> >>

PdfSmallB ==
  << << Ocean, The >>,
     << The >>,
     << << " ", "O", "C", "E", "A", "N", "\n" >>, << "t", "h", "e", "n" >> >> >>

PdfSmallC == << << Sat, OceanCap >> >>

\* Every page of it holds the word.
PdfLong == [ k \in 1..BigPages |-> << Ocean >> ]

\* Pages whose first match has 0, 29, 30 or 31 characters before and after it,
\* a page with two matches, one with none, one whose lower case is longer than
\* the text, one of several items.
PdfSnippets ==
  << << OceanCap >>,
     << Pad(29) \o OceanCap \o Pad(29) >>,
     << Pad(30) \o OceanCap \o Pad(30) >>,
     << Pad(31) \o OceanCap \o Pad(31) >>,
     << Pad(31) \o Ocean >>,
     << Ocean \o Pad(31) >>,
     << Pad(35) \o Ocean \o Pad(2) \o OceanCap \o Pad(35) >>,
     << Pad(40) >>,
     << << "U+0130" >> \o Pad(31) \o Ocean \o Pad(31) >>,
     << Pad(3), << "o", "c" >>, << "e", "a", "n" >>, Ocean, Pad(28), Ocean >> >>

Pdfs == << PdfSmallA, PdfSmallB, PdfSmallC, PdfLong, PdfSnippets >>

\* The pages of the payload stored under id.
PdfOf(id) == Pdfs[((id - 1) % Len(Pdfs)) + 1]

\* ---------------------------------------------------------- the task bag
Pending(t) == BagIn(t, tasks)
Spawn(t) == tasks (+) SetToBag({t})
Finish(t) == tasks (-) SetToBag({t})
Replace(t, u) == (tasks (-) SetToBag({t})) (+) SetToBag({u})

\* The interleavings explored: up to MaxTasks suspended handlers, a batch delete
\* only as the one suspended handler.
CanSuspend ==
  /\ BagCardinality(tasks) < MaxTasks
  /\ \A t \in BagToSet(tasks) : t.op # "batchDelete"
CanSuspendAlone == tasks = EmptyBag

\* Ids that suspended uploads will still draw from crypto.randomUUID().
RECURSIVE IdsOwed(_)
IdsOwed(ts) ==
  IF ts = {} THEN 0
  ELSE LET t == CHOOSE x \in ts : TRUE
           owed == IF t.op = "upload"
                   THEN CopiesIn(t, tasks) *
                        PdfCountFrom(t.files, IF t.pc = "read" THEN t.i ELSE t.i + 1)
                   ELSE 0
       IN  owed + IdsOwed(ts \ {t})

\* ------------------------------------------------------------ localStorage
\* An entry of localStorage: absent (getItem returns null), a text JSON.parse
\* rejects, or the JSON text of a value.
Absent == [kind |-> "absent"]
Corrupt == [kind |-> "corrupt"]
Json(value) == [kind |-> "json", value |-> value]

\* JSON.stringify of a Book: a property whose value is undefined is left out,
\* the category id is written as it is.
StringifyBook(b) ==
  IF b.category = Null
  THEN [ k \in DOMAIN b \ { "category" } |-> b[k] ]
  ELSE [ b EXCEPT !.category = b.category[1] ]

\* JSON.parse of that text; reading the property that is not there gives undefined.
ParseBook(j) ==
  IF "category" \in DOMAIN j
  THEN [ j EXCEPT !.category = Some(j.category) ]
  ELSE j @@ [category |-> Null]

StringifyBooks(bs) == Json([ k \in DOMAIN bs |-> StringifyBook(bs[k]) ])
ParseBooks(entry) == [ k \in DOMAIN entry.value |-> ParseBook(entry.value[k]) ]

\* What the three persistence effects write for a snapshot (lines 161-171).
Stored(bs, ns, cs) ==
  [ books |-> StringifyBooks(bs), notes |-> Json(ns), categories |-> Json(cs) ]

\* The categories effect left out.
PersistenceEffects_NoCategories ==
  storage' = [ books |-> IF books' = books THEN storage.books ELSE StringifyBooks(books'),
               notes |-> IF notes' = notes THEN storage.notes ELSE Json(notes'),
               categories |-> storage.categories ]

\* The persistence effects (lines 161-171): each runs after a render in which
\* its dependency changed and writes the new value.
PersistenceEffects ==
  storage' = [ books |-> IF books' = books THEN storage.books ELSE StringifyBooks(books'),
               notes |-> IF notes' = notes THEN storage.notes ELSE Json(notes'),
               categories |-> IF categories' = categories THEN storage.categories
                              ELSE Json(categories') ]

\* ------------------------------------------------------- effects of App
\* The state the handlers below never touch.
restVars == << catVars, loadingPdf, searchVars, hlVars, prefVars, boot >>

\* `temporaryHighlight &&`: null and the empty string are falsy.
Truthy(str) == str # Null /\ str[1] # << >>

\* The highlight effect (lines 216-243) runs again when temporaryHighlight,
\* pageNumber or view changed: its cleanup clears the 300 ms timeout of the last
\* run, and it sets a new one when there is a highlight and the reader is shown.
HighlightEffect ==
  passTimer' = IF << temporaryHighlight', pageNumber', view' >> =
                  << temporaryHighlight, pageNumber, view >>
               THEN passTimer
               ELSE Truthy(temporaryHighlight') /\ view' = "READER"

\* <Page key={`page_${pageNumber}`}> inside <Document file={currentPdfUrl}> (lines
\* 1087-1100): another page, another payload or another view renders new spans.
TextLayerEffect ==
  marked' = IF << pageNumber', currentBookData', view' >> =
               << pageNumber, currentBookData, view >>
            THEN marked
            ELSE {}

\* The blob URL effect (lines 199-213): no payload, no <Document>.
PdfUrlEffect ==
  loadingPdf' = IF currentBookData' = Null THEN Null ELSE loadingPdf

\* ------------------------------------------------------------------- Init
\* The useState defaults of App (lines 81-116) on a first visit: IndexedDB and
\* localStorage start empty, the first mount has ended and its persistence
\* effects have written the empty lists.
Init ==
  /\ books = << >>
  /\ notes = << >>
  /\ view = "LIBRARY"
  /\ currentBook = Null
  /\ currentBookData = Null
  /\ pageNumber = 1
  /\ numPages = 0
  /\ booksToDelete = << >>
  /\ isDeleteModalOpen = FALSE
  /\ toast = Null
  /\ blobs = {}
  /\ tasks = EmptyBag
  /\ nextId = 1
  /\ nextNoteId = 1
  /\ categories = << >>
  /\ nextCatId = 1
  /\ loadingPdf = Null
  /\ searchQuery = << >>
  /\ isSearching = FALSE
  /\ searchResults = << >>
  /\ searchCalls = << >>
  /\ temporaryHighlight = Null
  /\ passTimer = FALSE
  /\ expiryTimers = << >>
  /\ marked = {}
  /\ groupingMode = "none"
  /\ sortMode = "recent"
  /\ storage = Stored(<< >>, << >>, << >>)
  /\ boot = [phase |-> "running"]

\* The library page with no modal over it: the cards and the upload input.
OnLibraryPage == view = "LIBRARY" /\ ~isDeleteModalOpen

\* ------------------------------------------------------- handleFileUpload
\* Date.now() grows with the uploads, as the ids do: uploadDate is the id.
NewBook(id, file) ==
  [ id |-> id, title |-> ReplacePdf(file.name), author |-> "Desconhecido",
    uploadDate |-> id, totalPages |-> 0, currentPage |-> 1,
    status |-> "next", category |-> Null, rating |-> 0 ]

\* The loop from file i on, run until its next await or its end.
UploadFrom(t, files, i, newBooks) ==
  LET j == NextPdf(files, i)
  IN  IF j <= Len(files)
      THEN \* await file.arrayBuffer()
           /\ tasks' = (IF t = Null THEN tasks ELSE Finish(t[1])) (+)
                SetToBag({[op |-> "upload", files |-> files, i |-> j, pc |-> "read",
                           newBooks |-> newBooks]})
           /\ UNCHANGED << books, toast >>
      ELSE \* setBooks(prev => [...prev, ...newBooks]); showToast(...)
           /\ tasks' = (IF t = Null THEN tasks ELSE Finish(t[1]))
           /\ books' = books \o newBooks
           /\ toast' = Toast(<< "livro(s) adicionado(s)", Len(newBooks) >>, "success")

HandleFileUploadStart(files) ==
  /\ OnLibraryPage
  /\ CanSuspend
  /\ nextId + IdsOwed(BagToSet(tasks)) + PdfCountFrom(files, 1) <= MaxBooks + 1
  /\ Len(files) # 0
  /\ UploadFrom(Null, files, 1, << >>)
  /\ UNCHANGED << notes, readerVars, batchVars, blobs, nextId, nextNoteId >>
  /\ UNCHANGED restVars
  /\ PersistenceEffects

\* The books an upload has built so far: those saved, and the one being saved.
BuiltBooks(t) == IF t.pc = "save" THEN Append(t.newBooks, t.newBook) ELSE t.newBooks

\* The record pushed before its blob write is awaited, the list added in a finally.
HandleFileUploadCatch_AddsAnyway(t) ==
  /\ tasks' = Finish(t)
  /\ books' = books \o BuiltBooks(t)
  /\ toast' = Toast(<< "Falha ao salvar alguns pergaminhos." >>, "error")
  /\ UNCHANGED << blobs, nextId >>

\* catch (error) of line 285: the toast, and nothing else.
HandleFileUploadCatch(t) ==
  /\ tasks' = Finish(t)
  /\ toast' = Toast(<< "Falha ao salvar alguns pergaminhos." >>, "error")
  /\ UNCHANGED << books, blobs, nextId >>

\* The continuation of `await file.arrayBuffer()` (pc = "read") or of
\* `await saveBookData(newBook.id, arrayBuffer)` (pc = "save"); ok = FALSE is the
\* awaited promise rejecting, which lands in the catch of line 285.
HandleFileUploadResume(t, ok) ==
  /\ Pending(t)
  /\ t.op = "upload"
  /\ IF ~ok
     THEN HandleFileUploadCatch(t)
     ELSE IF t.pc = "read"
     THEN /\ tasks' = Replace(t, [t EXCEPT !.pc = "save"] @@
                                  [newBook |-> NewBook(nextId, t.files[t.i])])
          /\ nextId' = nextId + 1
          /\ UNCHANGED << books, blobs, toast >>
     ELSE /\ blobs' = SaveBookData(blobs, t.newBook.id)
          /\ UploadFrom(Some(t), t.files, t.i + 1, Append(t.newBooks, t.newBook))
          /\ UNCHANGED nextId
  /\ UNCHANGED << notes, readerVars, batchVars, nextNoteId >>
  /\ UNCHANGED restVars
  /\ PersistenceEffects

\* --------------------------------------------------------------- deleteBook
\* `window.confirm` answered no returns at once and changes nothing; the action is
\* the confirmed call, up to `await deleteBookData(id)`.  The closure holds the
\* `books` and `currentBook` of the render the handler was created in.
DeleteBookStart(id) ==
  /\ \/ OnLibraryPage /\ id \in BookIds(books)                 \* the card's button
     \/ view = "READER" /\ currentBook # Null /\ id = currentBook[1].id  \* settings
  /\ CanSuspend
  /\ tasks' = Spawn([op |-> "deleteBook", id |-> id,
                     bookToDelete |-> FindBook(books, id), cur |-> currentBook])
  /\ UNCHANGED << libVars, readerVars, batchVars, toast, blobs, nextId, nextNoteId >>
  /\ UNCHANGED restVars
  /\ PersistenceEffects

\* The state updated before the delete is awaited: the catch finds it done.
DeleteBookCatch_Optimistic(t) ==
  /\ toast' = Toast(<< "Erro ao excluir livro." >>, "error")
  /\ books' = WithoutBook(books, t.id)
  /\ notes' = WithoutNotesOf(notes, t.id)
  /\ UNCHANGED << blobs, currentBook, currentBookData, view >>

\* catch (e) of line 313: the toast, and nothing else.
DeleteBookCatch(t) ==
  /\ toast' = Toast(<< "Erro ao excluir livro." >>, "error")
  /\ UNCHANGED << blobs, currentBook, currentBookData, view, books, notes >>

\* The continuation of `await deleteBookData(id)`: lines 301-312, or the catch.
DeleteBookResume(t, ok) ==
  /\ Pending(t)
  /\ t.op = "deleteBook"
  /\ tasks' = Finish(t)
  /\ IF ok
     THEN /\ blobs' = DeleteBookData(blobs, t.id)
          /\ IF t.cur # Null /\ t.cur[1].id = t.id
             THEN /\ currentBook' = Null
                  /\ currentBookData' = Null
                  /\ view' = "LIBRARY"
             ELSE UNCHANGED << currentBook, currentBookData, view >>
          /\ books' = WithoutBook(books, t.id)
          /\ notes' = WithoutNotesOf(notes, t.id)
          /\ toast' = Toast(<< "Livro excluído com sucesso!",
                               IF t.bookToDelete = Null THEN Null
                               ELSE Some(t.bookToDelete[1].title) >>, "success")
     ELSE DeleteBookCatch(t)
  /\ UNCHANGED << pageNumber, numPages, batchVars, nextId, nextNoteId >>
  /\ UNCHANGED << prefVars, boot, catVars, searchVars, temporaryHighlight, expiryTimers >>
  /\ PdfUrlEffect /\ HighlightEffect /\ TextLayerEffect
  /\ PersistenceEffects

\* ------------------------------------------------------------ batch delete
OpenDeleteModal ==
  /\ OnLibraryPage
  /\ Len(books) > 0
  /\ isDeleteModalOpen' = TRUE
  /\ UNCHANGED << libVars, readerVars, booksToDelete, toast, blobs, tasks, nextId,
                  nextNoteId >>
  /\ UNCHANGED restVars
  /\ PersistenceEffects

CloseDeleteModal ==
  /\ view = "LIBRARY"
  /\ isDeleteModalOpen
  /\ isDeleteModalOpen' = FALSE
  /\ UNCHANGED << libVars, readerVars, booksToDelete, toast, blobs, tasks, nextId,
                  nextNoteId >>
  /\ UNCHANGED restVars
  /\ PersistenceEffects

ToggleBookForDeletion(id) ==
  /\ view = "LIBRARY"
  /\ isDeleteModalOpen
  /\ id \in BookIds(books)
  /\ booksToDelete' = IF id \in SeqToSet(booksToDelete)
                      THEN SelectSeq(booksToDelete, LAMBDA x : x # id)
                      ELSE Append(booksToDelete, id)
  /\ UNCHANGED << libVars, readerVars, isDeleteModalOpen, toast, blobs, tasks, nextId,
                  nextNoteId >>
  /\ UNCHANGED restVars
  /\ PersistenceEffects

ToggleAllForDeletion ==
  /\ view = "LIBRARY"
  /\ isDeleteModalOpen
  /\ booksToDelete' = IF Len(booksToDelete) = Len(books)
                      THEN << >>
                      ELSE [ k \in DOMAIN books |-> books[k].id ]
  /\ UNCHANGED << libVars, readerVars, isDeleteModalOpen, toast, blobs, tasks, nextId,
                  nextNoteId >>
  /\ UNCHANGED restVars
  /\ PersistenceEffects

\* `const book = books.find(b => b.id === id); if (book) deletedNames.push(book.title);`
PushName(names, bs, id) ==
  IF FindBook(bs, id) = Null THEN names ELSE Append(names, FindBook(bs, id)[1].title)

\* deletedNames.slice(0, 2) and the count behind "e outros".
NamesStr(names) ==
  << SubSeq(names, 1, IF Len(names) < 2 THEN Len(names) ELSE 2),
     IF Len(names) > 2 THEN Len(names) - 2 ELSE 0 >>

\* Up to the first `await deleteBookData(id)` of the loop.
ExecuteBatchDeleteStart ==
  /\ view = "LIBRARY"
  /\ isDeleteModalOpen
  /\ Len(booksToDelete) # 0
  /\ CanSuspendAlone
  /\ tasks' = Spawn([op |-> "batchDelete", idsToDelete |-> booksToDelete, i |-> 1,
                     deletedNames |-> PushName(<< >>, books, booksToDelete[1]),
                     books |-> books, cur |-> currentBook])
  /\ UNCHANGED << libVars, readerVars, batchVars, toast, blobs, nextId, nextNoteId >>
  /\ UNCHANGED restVars
  /\ PersistenceEffects

\* The continuation of the i-th `await deleteBookData(id)`: the next turn of the
\* loop, or lines 357-375 after the last one, or the catch of line 377.
ExecuteBatchDeleteResume(t, ok) ==
  /\ Pending(t)
  /\ t.op = "batchDelete"
  /\ IF ~ok
     THEN /\ tasks' = Finish(t)
          /\ toast' = Toast(<< "Erro ao excluir alguns livros." >>, "error")
          /\ UNCHANGED << blobs, libVars, readerVars, batchVars >>
     ELSE IF t.i < Len(t.idsToDelete)
     THEN /\ blobs' = DeleteBookData(blobs, t.idsToDelete[t.i])
          /\ tasks' = Replace(t, [t EXCEPT
                        !.i = t.i + 1,
                        !.deletedNames = PushName(t.deletedNames, t.books,
                                                  t.idsToDelete[t.i + 1])])
          /\ UNCHANGED << toast, libVars, readerVars, batchVars >>
     ELSE /\ blobs' = DeleteBookData(blobs, t.idsToDelete[t.i])
          /\ tasks' = Finish(t)
          /\ IF t.cur # Null /\ t.cur[1].id \in SeqToSet(t.idsToDelete)
             THEN /\ currentBook' = Null
                  /\ currentBookData' = Null
                  /\ view' = "LIBRARY"
             ELSE UNCHANGED << currentBook, currentBookData, view >>
          /\ books' = WithoutBooksIn(books, SeqToSet(t.idsToDelete))
          /\ notes' = WithoutNotesIn(notes, SeqToSet(t.idsToDelete))
          /\ booksToDelete' = << >>
          /\ isDeleteModalOpen' = FALSE
          /\ toast' = Toast(<< "Livro(s) excluído(s) com sucesso!",
                               NamesStr(t.deletedNames) >>, "success")
          /\ UNCHANGED << pageNumber, numPages >>
  /\ UNCHANGED << nextId, nextNoteId >>
  /\ UNCHANGED << prefVars, boot, catVars, searchVars, temporaryHighlight, expiryTimers >>
  /\ PdfUrlEffect /\ HighlightEffect /\ TextLayerEffect
  /\ PersistenceEffects

\* ------------------------------------------------------ updateBookMetadata
\* The two state updates of updateBookMetadata, for a call whose closure holds
\* `cur` as currentBook; `cb` is the currentBook the functional update receives.
\* The fields merged into every document.
UpdatedBooks_All(bs, id, updates) == [ k \in DOMAIN bs |-> Merge(bs[k], updates) ]

UpdatedBooks(bs, id, updates) == MapMerge(bs, id, updates)

UpdatedCurrent(cb, cur, id, updates) ==
  IF cur # Null /\ cur[1].id = id
  THEN (IF cb # Null THEN Some(Merge(cb[1], updates)) ELSE Null)
  ELSE cb

\* The status select of the settings panel (line 1242).
UpdateBookMetadata(updates) ==
  /\ view = "READER"
  /\ currentBook # Null
  /\ books' = UpdatedBooks(books, currentBook[1].id, updates)
  /\ currentBook' = UpdatedCurrent(currentBook, currentBook, currentBook[1].id, updates)
  /\ UNCHANGED << notes, view, currentBookData, pageNumber, numPages, batchVars, toast,
                  blobs, tasks, nextId, nextNoteId >>
  /\ UNCHANGED restVars
  /\ PersistenceEffects

\* ----------------------------------------------------------------- openBook
\* Up to `await getBookData(book.id)`; `book` is the object the card was rendered
\* with, targetPage the parameter (default 1: the card calls onOpen(book)).
OpenBookStart(book, targetPage) ==
  /\ OnLibraryPage
  /\ book \in SeqToSet(books)
  /\ IF FindBook(books, book.id) = Null
     THEN /\ toast' = Toast(<< "Este livro foi excluído." >>, "error")
          /\ UNCHANGED tasks
     ELSE /\ CanSuspend
          /\ tasks' = Spawn([op |-> "openBook", book |-> book,
                             targetPage |-> targetPage, cur |-> currentBook])
          /\ UNCHANGED toast
  /\ UNCHANGED << libVars, readerVars, batchVars, blobs, nextId, nextNoteId >>
  /\ UNCHANGED restVars
  /\ PersistenceEffects

\* openBook with setCurrentBook and setPageNumber before the test of `data`.
OpenBookResume_BookBeforeTest(t, data) ==
  /\ Pending(t)
  /\ t.op = "openBook"
  /\ data = "data" => GetBookData(blobs, t.book.id) # Null
  /\ data = "absent" => GetBookData(blobs, t.book.id) = Null
  /\ tasks' = Finish(t)
  /\ IF data = "data"
     THEN /\ currentBookData' = GetBookData(blobs, t.book.id)
          /\ pageNumber' = JsOr(t.targetPage, JsOr(t.book.currentPage, 1))
          /\ temporaryHighlight' = Null
          /\ view' = "READER"
          /\ loadingPdf' = currentBookData'
          /\ marked' = {}
          /\ IF t.book.status = "next"
             THEN /\ books' = UpdatedBooks(books, t.book.id, [status |-> "reading"])
                  /\ currentBook' = UpdatedCurrent(Some(t.book), t.cur, t.book.id,
                                                   [status |-> "reading"])
             ELSE /\ currentBook' = Some(t.book)
                  /\ UNCHANGED books
          /\ UNCHANGED toast
     ELSE /\ toast' = IF data = "absent"
                      THEN Toast(<< "O pergaminho parece estar danificado" >>, "error")
                      ELSE Toast(<< "Erro ao abrir livro." >>, "error")
          /\ currentBook' = Some(t.book)
          /\ pageNumber' = JsOr(t.targetPage, JsOr(t.book.currentPage, 1))
          /\ UNCHANGED << books, view, currentBookData >>
          /\ UNCHANGED << temporaryHighlight, loadingPdf, marked >>
  /\ HighlightEffect
  /\ UNCHANGED << notes, numPages, batchVars, blobs, nextId, nextNoteId >>
  /\ UNCHANGED << prefVars, boot, catVars, searchVars, expiryTimers >>
  /\ PersistenceEffects

\* The continuation of `await getBookData(book.id)`: data is "data" when the
\* store holds the payload, "absent" when it does not, "error" when the read
\* rejects.
OpenBookResume(t, data) ==
  /\ Pending(t)
  /\ t.op = "openBook"
  /\ data = "data" => GetBookData(blobs, t.book.id) # Null
  /\ data = "absent" => GetBookData(blobs, t.book.id) = Null
  /\ tasks' = Finish(t)
  /\ IF data = "data"
     THEN /\ currentBookData' = GetBookData(blobs, t.book.id)
          /\ pageNumber' = JsOr(t.targetPage, JsOr(t.book.currentPage, 1))
          /\ temporaryHighlight' = Null
          /\ view' = "READER"
          /\ loadingPdf' = currentBookData'
          /\ marked' = {}
          /\ IF t.book.status = "next"
             THEN /\ books' = UpdatedBooks(books, t.book.id, [status |-> "reading"])
                  /\ currentBook' = UpdatedCurrent(Some(t.book), t.cur, t.book.id,
                                                   [status |-> "reading"])
             ELSE /\ currentBook' = Some(t.book)
                  /\ UNCHANGED books
          /\ UNCHANGED toast
     ELSE /\ toast' = IF data = "absent"
                      THEN Toast(<< "O pergaminho parece estar danificado" >>, "error")
                      ELSE Toast(<< "Erro ao abrir livro." >>, "error")
          /\ UNCHANGED << books, view, currentBook, currentBookData, pageNumber >>
          /\ UNCHANGED << temporaryHighlight, loadingPdf, marked >>
  /\ HighlightEffect
  /\ UNCHANGED << notes, numPages, batchVars, blobs, nextId, nextNoteId >>
  /\ UNCHANGED << prefVars, boot, catVars, searchVars, expiryTimers >>
  /\ PersistenceEffects

\* ---------------------------------------------------------------- closeBook
CloseBook ==
  /\ view = "READER"
  /\ books' = IF currentBook # Null
              THEN [ k \in DOMAIN books |->
                       IF books[k].id = currentBook[1].id
                       THEN [books[k] EXCEPT
                               !.currentPage = pageNumber,
                               !.totalPages = IF numPages > 0 THEN numPages ELSE @]
                       ELSE books[k] ]
              ELSE books
  /\ currentBook' = Null
  /\ currentBookData' = Null
  /\ temporaryHighlight' = Null
  /\ view' = "LIBRARY"
  /\ UNCHANGED << notes, pageNumber, numPages, batchVars, toast, blobs, tasks, nextId,
                  nextNoteId >>
  /\ UNCHANGED << prefVars, boot, catVars, searchVars, expiryTimers >>
  /\ PdfUrlEffect /\ HighlightEffect /\ TextLayerEffect
  /\ PersistenceEffects

\* --------------------------------------------------------- the reader page
\* onLoadSuccess of <Document> (line 1090): react-pdf has loaded the payload.
OnDocumentLoadSuccess ==
  /\ view = "READER"
  /\ loadingPdf # Null
  /\ numPages' = Len(PdfOf(loadingPdf[1]))
  /\ books' = IF currentBook # Null /\ currentBook[1].totalPages = 0
              THEN MapMerge(books, currentBook[1].id, [totalPages |-> numPages'])
              ELSE books
  /\ loadingPdf' = Null
  /\ UNCHANGED << notes, view, currentBook, currentBookData, pageNumber, batchVars,
                  toast, blobs, tasks, nextId, nextNoteId >>
  /\ UNCHANGED << prefVars, boot, catVars, searchVars, hlVars >>
  /\ PersistenceEffects

\* The previous-page button (line 947), disabled on page 1.
PrevPage ==
  /\ view = "READER"
  /\ ~(pageNumber <= 1)
  /\ pageNumber' = Max(1, pageNumber - 1)
  /\ UNCHANGED << libVars, view, currentBook, currentBookData, numPages, batchVars,
                  toast, blobs, tasks, nextId, nextNoteId >>
  /\ UNCHANGED << prefVars, boot, catVars, loadingPdf, searchVars, temporaryHighlight, expiryTimers >>
  /\ HighlightEffect /\ TextLayerEffect
  /\ PersistenceEffects

\* The next-page button (line 968), disabled on the last page.
NextPage ==
  /\ view = "READER"
  /\ ~(pageNumber >= numPages)
  /\ pageNumber' = Min(numPages, pageNumber + 1)
  /\ UNCHANGED << libVars, view, currentBook, currentBookData, numPages, batchVars,
                  toast, blobs, tasks, nextId, nextNoteId >>
  /\ UNCHANGED << prefVars, boot, catVars, loadingPdf, searchVars, temporaryHighlight, expiryTimers >>
  /\ HighlightEffect /\ TextLayerEffect
  /\ PersistenceEffects

\* The digits of parseInt.
DigitValue ==
  [ c \in { "0", "1", "2", "3", "4", "5", "6", "7", "8", "9" } |->
      CASE c = "0" -> 0 [] c = "1" -> 1 [] c = "2" -> 2 [] c = "3" -> 3 [] c = "4" -> 4
        [] c = "5" -> 5 [] c = "6" -> 6 [] c = "7" -> 7 [] c = "8" -> 8 [] OTHER -> 9 ]

\* The value of the longest run of digits str starts with, Null if it starts
\* with none; `value` is the value of the digits read so far.
RECURSIVE ParseDigits(_, _, _)
ParseDigits(str, value, any) ==
  IF str # << >> /\ Head(str) \in DOMAIN DigitValue
  THEN ParseDigits(Tail(str), 10 * value + DigitValue[Head(str)], TRUE)
  ELSE IF any THEN Some(value) ELSE Null

\* parseInt(str): white space skipped, a sign, the digits; Null is NaN.
ParseInt(str) ==
  LET body == TrimStart(str)
      negative == body # << >> /\ Head(body) = "-"
      signed == body # << >> /\ Head(body) \in { "-", "+" }
      digits == ParseDigits(IF signed THEN Tail(body) ELSE body, 0, FALSE)
  IN  IF digits = Null THEN Null
      ELSE IF negative THEN Some(0 - digits[1]) ELSE digits

\* The test of handlePageInputSubmit with 0 let through.
ValidPage_FromZero(val) == val # Null /\ val[1] >= 0 /\ val[1] <= numPages

\* `!isNaN(val) && val >= 1 && val <= numPages` (line 440)
ValidPage(val) == val # Null /\ val[1] >= 1 /\ val[1] <= numPages

\* handlePageInputSubmit (lines 438-445) on what the page input holds; on an
\* input that is no page of the document only the input is reset.
PageInputSubmit(pageInput) ==
  /\ view = "READER"
  /\ LET val == ParseInt(pageInput)
     IN  pageNumber' = IF ValidPage(val) THEN val[1] ELSE pageNumber
  /\ UNCHANGED << libVars, view, currentBook, currentBookData, numPages, batchVars,
                  toast, blobs, tasks, nextId, nextNoteId >>
  /\ UNCHANGED << prefVars, boot, catVars, loadingPdf, searchVars, temporaryHighlight,
                  expiryTimers >>
  /\ HighlightEffect /\ TextLayerEffect
  /\ PersistenceEffects

\* The quoted text of a note of the open document is clicked in the note
\* panel (lines 1366-1371); the panel shows it for a note that has one.
ClickNoteHighlight(n) ==
  /\ view = "READER"
  /\ currentBook # Null
  /\ n \in DOMAIN notes
  /\ notes[n].bookId = currentBook[1].id
  /\ notes[n].highlight # ""
  /\ pageNumber' = notes[n].pageNumber
  /\ temporaryHighlight' = Some(<< notes[n].highlight >>)
  /\ UNCHANGED << libVars, view, currentBook, currentBookData, numPages, batchVars,
                  toast, blobs, tasks, nextId, nextNoteId >>
  /\ UNCHANGED << prefVars, boot, catVars, loadingPdf, searchVars, expiryTimers >>
  /\ HighlightEffect /\ TextLayerEffect
  /\ PersistenceEffects

\* ------------------------------------------------------------------- search
SnippetContext == 30
ResultCap == 50
Ellipsis == << ".", ".", "." >>

\* The loop of lines 521-545 from page i on, `results` being what it has pushed.
RECURSIVE ScanFrom(_, _, _, _)
ScanFrom(pages, query, i, results) ==
  IF i > Len(pages) THEN results
  ELSE LET text == Join(pages[i])
           lowerText == ToLowerCase(text)
           lowerQuery == ToLowerCase(query)
       IN  IF Includes(lowerText, lowerQuery)
           THEN LET index == IndexOf(lowerText, lowerQuery)
                    start == Max(0, index - SnippetContext)
                    end == Min(Len(text), index + Len(query) + SnippetContext)
                    snippet == Ellipsis \o Substring(text, start, end) \o Ellipsis
                    pushed == Append(results, [page |-> i, text |-> snippet])
                IN  IF Len(pushed) > ResultCap THEN pushed
                    ELSE ScanFrom(pages, query, i + 1, pushed)
           ELSE ScanFrom(pages, query, i + 1, results)

\* The search input (line 1176).
SetSearchQuery(q) ==
  /\ view = "READER"
  /\ searchQuery' = q
  /\ UNCHANGED << libVars, readerVars, batchVars, toast, blobs, tasks, nextId, nextNoteId >>
  /\ UNCHANGED << prefVars, boot, catVars, loadingPdf, isSearching, searchResults, searchCalls, hlVars >>
  /\ PersistenceEffects

\* handleSearch up to `await loadingTask.promise`: Enter in the search input
\* (line 1177), which does not look at isSearching, or the search button.
HandleSearchStart ==
  /\ view = "READER"
  /\ Len(searchCalls) < MaxSearches
  /\ IF currentBookData = Null \/ Trim(searchQuery) = << >>
     THEN /\ searchCalls' = Append(searchCalls, [query |-> searchQuery, started |-> FALSE])
          /\ UNCHANGED << isSearching, searchResults, tasks >>
     ELSE /\ CanSuspend
          /\ searchCalls' = Append(searchCalls, [query |-> searchQuery, started |-> TRUE])
          /\ isSearching' = TRUE
          /\ searchResults' = << >>
          /\ tasks' = Spawn([op |-> "search", data |-> currentBookData[1],
                             query |-> searchQuery, n |-> Len(searchCalls) + 1])
  /\ UNCHANGED << libVars, readerVars, batchVars, toast, blobs, nextId, nextNoteId >>
  /\ UNCHANGED << prefVars, boot, catVars, loadingPdf, searchQuery, hlVars >>
  /\ PersistenceEffects

\* handleSearch with setIsSearching(false) as the last statement of `try`.
HandleSearchResume_NoFinally(t, ok) ==
  /\ Pending(t)
  /\ t.op = "search"
  /\ tasks' = Finish(t)
  /\ IF ok
     THEN /\ searchResults' = ScanFrom(PdfOf(t.data), t.query, 1, << >>)
          /\ isSearching' = FALSE
          /\ UNCHANGED toast
     ELSE /\ toast' = Toast(<< "Erro na pesquisa." >>, "error")
          /\ UNCHANGED << searchResults, isSearching >>
  /\ UNCHANGED << libVars, readerVars, batchVars, blobs, nextId, nextNoteId >>
  /\ UNCHANGED << prefVars, boot, catVars, loadingPdf, searchQuery, searchCalls, hlVars >>
  /\ PersistenceEffects

\* The rest of handleSearch: the awaits of the parse and of the pages, none of
\* which reads the state, then setSearchResults; ok = FALSE is one of them
\* rejecting, which lands in the catch of line 549.  `finally` ends both.
HandleSearchResume(t, ok) ==
  /\ Pending(t)
  /\ t.op = "search"
  /\ tasks' = Finish(t)
  /\ IF ok
     THEN /\ searchResults' = ScanFrom(PdfOf(t.data), t.query, 1, << >>)
          /\ UNCHANGED toast
     ELSE /\ toast' = Toast(<< "Erro na pesquisa." >>, "error")
          /\ UNCHANGED searchResults
  /\ isSearching' = FALSE
  /\ UNCHANGED << libVars, readerVars, batchVars, blobs, nextId, nextNoteId >>
  /\ UNCHANGED << prefVars, boot, catVars, loadingPdf, searchQuery, searchCalls, hlVars >>
  /\ PersistenceEffects

\* --------------------------------------------------------------- highlight
\* str.replace(/\s+/g, ' ')
RECURSIVE CollapseSpaces(_)
CollapseSpaces(str) ==
  IF str = << >> THEN << >>
  ELSE IF Head(str) \in WhiteSpace THEN << " " >> \o CollapseSpaces(TrimStart(Tail(str)))
  ELSE << Head(str) >> \o CollapseSpaces(Tail(str))

\* normalize of line 220
Normalize(str) == ToLowerCase(Trim(CollapseSpaces(str)))

\* The test of line 229 with 4 in the place of 3.
SpanMatches_Longer(text, target) ==
  \/ Len(text) > 4 /\ Includes(target, text)
  \/ Len(target) > 4 /\ Includes(text, target)

\* The test of line 229 with >= in the place of >.
SpanMatches_Inclusive(text, target) ==
  \/ Len(text) >= 3 /\ Includes(target, text)
  \/ Len(target) >= 3 /\ Includes(text, target)

\* The test of line 229 on the normalized texts.
SpanMatches(text, target) ==
  \/ Len(text) > 3 /\ Includes(target, text)
  \/ Len(target) > 3 /\ Includes(text, target)

\* document.querySelectorAll('.react-pdf__Page__textContent span'): one span
\* per text item of the page shown, none while the text layer is not rendered.
Spans(rendered) ==
  IF /\ rendered
     /\ currentBookData # Null
     /\ loadingPdf = Null
     /\ pageNumber \in DOMAIN PdfOf(currentBookData[1])
  THEN PdfOf(currentBookData[1])[pageNumber]
  ELSE << >>

\* A result of the search panel is clicked (lines 1200-1203).
ClickSearchResult(k) ==
  /\ view = "READER"
  /\ ~isSearching
  /\ k \in DOMAIN searchResults
  /\ pageNumber' = searchResults[k].page
  /\ temporaryHighlight' = Some(searchQuery)
  /\ UNCHANGED << libVars, view, currentBook, currentBookData, numPages, batchVars,
                  toast, blobs, tasks, nextId, nextNoteId >>
  /\ UNCHANGED << prefVars, boot, catVars, loadingPdf, searchVars, expiryTimers >>
  /\ HighlightEffect /\ TextLayerEffect
  /\ PersistenceEffects

\* The pass with the 3000 ms timeout started whether or not a span matched.
HighlightPass_AlwaysTimer(rendered) ==
  /\ passTimer
  /\ Len(expiryTimers) < MaxTimers
  /\ passTimer' = FALSE
  /\ LET target == Normalize(temporaryHighlight[1])
         spans == Spans(rendered)
         hits == { k \in DOMAIN spans : SpanMatches(Normalize(spans[k]), target) }
     IN  /\ marked' = marked \cup hits
         /\ expiryTimers' = Append(expiryTimers, [target |-> temporaryHighlight[1]])
  /\ UNCHANGED << libVars, readerVars, batchVars, toast, blobs, tasks, nextId, nextNoteId >>
  /\ UNCHANGED << prefVars, boot, catVars, loadingPdf, searchVars, temporaryHighlight >>
  /\ PersistenceEffects

\* The 300 ms timeout of the highlight effect fires (lines 219-239).
HighlightPass(rendered) ==
  /\ passTimer
  /\ Len(expiryTimers) < MaxTimers
  /\ passTimer' = FALSE
  /\ LET target == Normalize(temporaryHighlight[1])
         spans == Spans(rendered)
         hits == { k \in DOMAIN spans : SpanMatches(Normalize(spans[k]), target) }
     IN  /\ marked' = marked \cup hits
         /\ expiryTimers' = IF hits # {}
                            THEN Append(expiryTimers, [target |-> temporaryHighlight[1]])
                            ELSE expiryTimers
  /\ UNCHANGED << libVars, readerVars, batchVars, toast, blobs, tasks, nextId, nextNoteId >>
  /\ UNCHANGED << prefVars, boot, catVars, loadingPdf, searchVars, temporaryHighlight >>
  /\ PersistenceEffects

\* The 3000 ms timeout firing without clearing the highlight.
HighlightExpire_Keeps ==
  /\ expiryTimers # << >>
  /\ expiryTimers' = Tail(expiryTimers)
  /\ UNCHANGED << libVars, readerVars, batchVars, toast, blobs, tasks, nextId, nextNoteId >>
  /\ UNCHANGED << prefVars, boot, catVars, loadingPdf, searchVars, marked, temporaryHighlight, passTimer >>
  /\ PersistenceEffects

\* The oldest 3000 ms timeout fires (line 237): setTemporaryHighlight(null).
HighlightExpire ==
  /\ expiryTimers # << >>
  /\ expiryTimers' = Tail(expiryTimers)
  /\ temporaryHighlight' = Null
  /\ UNCHANGED << libVars, readerVars, batchVars, toast, blobs, tasks, nextId, nextNoteId >>
  /\ UNCHANGED << prefVars, boot, catVars, loadingPdf, searchVars, marked >>
  /\ HighlightEffect
  /\ PersistenceEffects

\* ------------------------------------------------------------- first mount
\* JSON.parse of the entry under a key.
ParseEntry(key, entry) == IF key = "books" THEN ParseBooks(entry) ELSE entry.value

\* `if (saved) setX(JSON.parse(saved))`: the value a state update is queued
\* with, none for an entry that is not there.
Loaded(key, entry) == IF entry.kind = "json" THEN Some(ParseEntry(key, entry)) ELSE Null

StorageKeys == { "books", "notes", "categories" }

\* The effects of the first render, in the order App declares them: the
\* initial load (lines 143-158), in which JSON.parse throws on a text that is
\* no JSON and nothing catches it, so that React unmounts App and the effects
\* declared after it do not run; then the persistence effects (lines 161-171),
\* which hold the state of the first render, the useState defaults.
MountEffects ==
  /\ boot.phase = "mounting"
  /\ IF \E key \in StorageKeys : storage[key].kind = "corrupt"
     THEN /\ boot' = [phase |-> "crashed"]
          /\ storage' = storage
     ELSE /\ boot' = [phase |-> "hydrating",
                      books |-> Loaded("books", storage.books),
                      notes |-> Loaded("notes", storage.notes),
                      categories |-> Loaded("categories", storage.categories)]
          /\ storage' = Stored(books, notes, categories)
  /\ UNCHANGED << libVars, readerVars, batchVars, toast, blobs, tasks, nextId, nextNoteId >>
  /\ UNCHANGED << catVars, loadingPdf, searchVars, hlVars, prefVars >>

\* The render the queued updates cause, and its persistence effects.
HydrateRender ==
  /\ boot.phase = "hydrating"
  /\ books' = IF boot.books = Null THEN books ELSE boot.books[1]
  /\ notes' = IF boot.notes = Null THEN notes ELSE boot.notes[1]
  /\ categories' = IF boot.categories = Null THEN categories ELSE boot.categories[1]
  /\ boot' = [phase |-> "running"]
  /\ UNCHANGED << readerVars, batchVars, toast, blobs, tasks, nextId, nextNoteId >>
  /\ UNCHANGED << nextCatId, loadingPdf, searchVars, hlVars, prefVars >>
  /\ PersistenceEffects

\* ------------------------------------------------------- sorting, grouping
GroupingMode == { "none", "category", "status", "rating" }
SortMode == { "recent", "rating", "progress", "pages", "completed" }

\* The view menu of the library header (lines 779-805).
SetGroupingMode(mode) ==
  /\ OnLibraryPage
  /\ groupingMode' = mode
  /\ UNCHANGED << libVars, readerVars, batchVars, toast, blobs, tasks, nextId, nextNoteId >>
  /\ UNCHANGED << catVars, loadingPdf, searchVars, hlVars, sortMode, boot >>
  /\ PersistenceEffects

SetSortMode(mode) ==
  /\ OnLibraryPage
  /\ sortMode' = mode
  /\ UNCHANGED << libVars, readerVars, batchVars, toast, blobs, tasks, nextId, nextNoteId >>
  /\ UNCHANGED << catVars, loadingPdf, searchVars, hlVars, groupingMode, boot >>
  /\ PersistenceEffects

\* The collation of localeCompare for the letters of the model: the letters in
\* alphabetical order whatever their case, and for the same letter the small
\* one first.
Primary == [ a |-> 1, A |-> 1, b |-> 2, B |-> 2, c |-> 3, C |-> 3 ]
Tertiary == [ a |-> 0, A |-> 1, b |-> 0, B |-> 1, c |-> 0, C |-> 1 ]

\* The sign of the first difference of two key sequences, a prefix first.
RECURSIVE CompareKeys(_, _)
CompareKeys(x, y) ==
  IF x = << >> THEN (IF y = << >> THEN 0 ELSE -1)
  ELSE IF y = << >> THEN 1
  ELSE IF Head(x) < Head(y) THEN -1
  ELSE IF Head(x) > Head(y) THEN 1
  ELSE CompareKeys(Tail(x), Tail(y))

\* a.localeCompare(b)
LocaleCompare(a, b) ==
  LET first == CompareKeys([ k \in DOMAIN a |-> Primary[a[k]] ],
                           [ k \in DOMAIN b |-> Primary[b[k]] ])
  IN  IF first # 0 THEN first
      ELSE CompareKeys([ k \in DOMAIN a |-> Tertiary[a[k]] ],
                       [ k \in DOMAIN b |-> Tertiary[b[k]] ])

\* The comparator of sortBooks (lines 653-669).
CompareBooks(a, b, mode) ==
  CASE mode = "rating" -> JsOr(b.rating, 0) - JsOr(a.rating, 0)
    [] mode = "progress" -> JsOr(b.currentPage, 0) - JsOr(a.currentPage, 0)
    [] mode = "pages" -> JsOr(b.totalPages, 0) - JsOr(a.totalPages, 0)
    [] mode = "completed" ->
         LET aCompleted == IF a.status = "completed" THEN 1 ELSE 0
             bCompleted == IF b.status = "completed" THEN 1 ELSE 0
         IN  IF aCompleted # bCompleted THEN bCompleted - aCompleted
             ELSE LocaleCompare(a.title, b.title)
    [] OTHER -> b.uploadDate - a.uploadDate

\* The element put before the elements it compares equal to.
InsertSorted_BeforeEqual(sorted, b, mode) ==
  LET later == { k \in DOMAIN sorted : CompareBooks(sorted[k], b, mode) >= 0 }
      at == IF later = {} THEN Len(sorted) + 1 ELSE CHOOSE k \in later : \A j \in later : k <= j
  IN  SubSeq(sorted, 1, at - 1) \o << b >> \o SubSeq(sorted, at, Len(sorted))

\* Array.prototype.sort is stable: an element goes after the elements that do
\* not come after it, before the first that does.
InsertSorted(sorted, b, mode) ==
  LET later == { k \in DOMAIN sorted : CompareBooks(sorted[k], b, mode) > 0 }
      at == IF later = {} THEN Len(sorted) + 1 ELSE CHOOSE k \in later : \A j \in later : k <= j
  IN  SubSeq(sorted, 1, at - 1) \o << b >> \o SubSeq(sorted, at, Len(sorted))

\* [...list].sort(comparator) of sortBooks (lines 651-672), the first n elements.
RECURSIVE SortPrefix(_, _, _)
SortPrefix(list, n, mode) ==
  IF n = 0 THEN << >> ELSE InsertSorted(SortPrefix(list, n - 1, mode), list[n], mode)

SortBooks(list, mode) == SortPrefix(list, Len(list), mode)

\* The labels of getGroupedBooks (lines 675-694), each the sequence of its
\* characters as a category name is.
LabelTodos == << "T", "o", "d", "o", "s" >>
LabelSemCategoria == << "S", "e", "m", " ", "C", "a", "t", "e", "g", "o", "r", "i", "a" >>
LabelSemAvaliacao == << "S", "e", "m", " ", "A", "v", "a", "l", "i", "a", "ç", "ã", "o" >>
Estrelas == << " ", "E", "s", "t", "r", "e", "l", "a", "s" >>
StatusLabels ==
  [ next |-> << "P", "r", "ó", "x", "i", "m", "o" >>, reading |-> << "L", "e", "n", "d", "o" >>, paused |-> << "P", "a", "u", "s", "a", "d", "o" >>,
    completed |-> << "C", "o", "n", "c", "l", "u", "í", "d", "o" >>, discarded |-> << "D", "e", "s", "c", "a", "r", "t", "a", "d", "o" >> ]
Digits == << "1", "2", "3", "4", "5" >>

\* The names a fresh object `{}` already answers to through Object.prototype,
\* among those a category can be named.
ObjectPrototypeKeys ==
  { << "c", "o", "n", "s", "t", "r", "u", "c", "t", "o", "r" >>, << "t", "o", "S", "t", "r", "i", "n", "g" >> }

\* categories.find(c => c.id === book.category)
FindCategory(cs, category) ==
  LET idx == { k \in DOMAIN cs : Some(cs[k].id) = category }
  IN  IF idx = {} THEN Null
      ELSE Some(cs[CHOOSE k \in idx : \A j \in idx : k <= j])

\* The key of a book (lines 680-694).
GroupKey(book, mode, cs) ==
  CASE mode = "category" ->
         LET cat == FindCategory(cs, book.category)
         IN  IF cat # Null THEN cat[1].name ELSE LabelSemCategoria
    [] mode = "status" -> StatusLabels[book.status]
    [] OTHER -> IF book.rating # 0 THEN << Digits[book.rating] >> \o Estrelas
                ELSE LabelSemAvaliacao

\* `if (!groups[key]) groups[key] = []; groups[key].push(book)` (lines 696-697):
\* `groups[key]` of a key the object inherits is a function, which is truthy
\* and has no push, so the call throws a TypeError.
PushBook(groups, key, book) ==
  LET idx == { k \in DOMAIN groups : groups[k].key = key }
  IN  IF idx # {}
      THEN [threw |-> FALSE,
            groups |-> [ groups EXCEPT ![CHOOSE k \in idx : TRUE].books = Append(@, book) ]]
      ELSE IF key \in ObjectPrototypeKeys
      THEN [threw |-> TRUE, groups |-> groups]
      ELSE [threw |-> FALSE, groups |-> Append(groups, [key |-> key, books |-> << book >>])]

\* sortedBooks.forEach of getGroupedBooks from book i on; `groups` lists the
\* own keys of the object in the order they were set, which is the order of
\* Object.entries (line 820) as no key of the model is an array index.
RECURSIVE GroupFrom(_, _, _, _, _)
GroupFrom(sorted, i, mode, cs, groups) ==
  IF i > Len(sorted) THEN [threw |-> FALSE, groups |-> groups]
  ELSE LET pushed == PushBook(groups, GroupKey(sorted[i], mode, cs), sorted[i])
       IN  IF pushed.threw THEN pushed
           ELSE GroupFrom(sorted, i + 1, mode, cs, pushed.groups)

\* getGroupedBooks (lines 674-702) of a sorted list.
GetGroupedBooks(sorted, mode, cs) ==
  IF mode = "none" THEN [threw |-> FALSE, groups |-> << [key |-> LabelTodos, books |-> sorted] >>]
  ELSE GroupFrom(sorted, 1, mode, cs, << >>)

\* What renderLibrary computes from the state (lines 672, 704).
SortedBooks == SortBooks(books, sortMode)
GroupedBooks == GetGroupedBooks(SortedBooks, groupingMode, categories)

\* --------------------------------------------------------------- categories
\* The Categories button of the library header (line 739).
ShowCategories ==
  /\ OnLibraryPage
  /\ view' = "CATEGORIES"
  /\ UNCHANGED << libVars, currentBook, currentBookData, pageNumber, numPages, batchVars,
                  toast, blobs, tasks, nextId, nextNoteId >>
  /\ UNCHANGED << prefVars, boot, catVars, loadingPdf, searchVars, temporaryHighlight, expiryTimers >>
  /\ HighlightEffect /\ TextLayerEffect
  /\ PersistenceEffects

\* The back button of the notes and categories pages (line 1396).
BackToLibrary ==
  /\ view \in {"NOTES", "CATEGORIES"}
  /\ view' = "LIBRARY"
  /\ UNCHANGED << libVars, currentBook, currentBookData, pageNumber, numPages, batchVars,
                  toast, blobs, tasks, nextId, nextNoteId >>
  /\ UNCHANGED << prefVars, boot, catVars, loadingPdf, searchVars, temporaryHighlight, expiryTimers >>
  /\ HighlightEffect /\ TextLayerEffect
  /\ PersistenceEffects

CategoryIds(cs) == { cs[k].id : k \in DOMAIN cs }

\* addCategory with newCategoryName = name (Enter in the input, or the button).
AddCategory(name) ==
  /\ view = "CATEGORIES"
  /\ nextCatId <= MaxCats
  /\ IF Trim(name) = << >>
     THEN UNCHANGED << categories, nextCatId, toast >>
     ELSE /\ categories' = Append(categories, [id |-> nextCatId, name |-> Trim(name)])
          /\ nextCatId' = nextCatId + 1
          /\ toast' = Toast(<< "Categoria criada." >>, "success")
  /\ UNCHANGED << libVars, readerVars, batchVars, blobs, tasks, nextId, nextNoteId >>
  /\ UNCHANGED << prefVars, boot, loadingPdf, searchVars, hlVars >>
  /\ PersistenceEffects

\* The documents of the category deleted along with it.
ClearCategory_Cascade(bs, id) == SelectSeq(bs, LAMBDA b : b.category # Some(id))

\* The documents left pointing at the deleted category.
ClearCategory_Keep(bs, id) == bs

\* prev.map(b => b.category === id ? { ...b, category: undefined } : b)
ClearCategory(bs, id) ==
  [ k \in DOMAIN bs |->
      IF bs[k].category = Some(id) THEN [ bs[k] EXCEPT !.category = Null ] ELSE bs[k] ]

\* deleteCategory(id) with the confirm dialog answered yes; answered no, the
\* handler changes nothing.
DeleteCategory(id) ==
  /\ view = "CATEGORIES"
  /\ id \in CategoryIds(categories)
  /\ categories' = SelectSeq(categories, LAMBDA c : c.id # id)
  /\ books' = ClearCategory(books, id)
  /\ toast' = Toast(<< "Categoria removida." >>, "success")
  /\ UNCHANGED << notes, readerVars, batchVars, blobs, tasks, nextId, nextNoteId >>
  /\ UNCHANGED << prefVars, boot, nextCatId, loadingPdf, searchVars, hlVars >>
  /\ PersistenceEffects

\* The values of the category select of the settings panel (lines 1258-1267):
\* `e.target.value || undefined` for "Sem Categoria" and one option per category.
CategoryOptions == { Null } \cup { Some(c) : c \in CategoryIds(categories) }

\* ----------------------------------------------------------------- saveNote
\* The new note put after the others.
SaveNote_Appends(noteText, selection) ==
  /\ view = "READER"
  /\ nextNoteId <= MaxNotes
  /\ IF currentBook = Null \/ (noteText = "" /\ selection = "")
     THEN UNCHANGED << notes, toast, nextNoteId >>
     ELSE /\ notes' = notes \o
                      << [ id |-> nextNoteId, bookId |-> currentBook[1].id,
                           pageNumber |-> pageNumber, text |-> noteText,
                           highlight |-> selection, createdAt |-> nextNoteId ] >>
          /\ toast' = Toast(<< "Nota salva." >>, "success")
          /\ nextNoteId' = nextNoteId + 1
  /\ UNCHANGED << books, readerVars, batchVars, blobs, tasks, nextId >>
  /\ UNCHANGED restVars
  /\ PersistenceEffects

\* noteText and selection are what the user typed and selected.
SaveNote(noteText, selection) ==
  /\ view = "READER"
  /\ nextNoteId <= MaxNotes
  /\ IF currentBook = Null \/ (noteText = "" /\ selection = "")
     THEN UNCHANGED << notes, toast, nextNoteId >>
     ELSE /\ notes' = << [ id |-> nextNoteId, bookId |-> currentBook[1].id,
                           pageNumber |-> pageNumber, text |-> noteText,
                           highlight |-> selection, createdAt |-> nextNoteId ] >>
                      \o notes
          /\ toast' = Toast(<< "Nota salva." >>, "success")
          /\ nextNoteId' = nextNoteId + 1
  /\ UNCHANGED << books, readerVars, batchVars, blobs, tasks, nextId >>
  /\ UNCHANGED restVars
  /\ PersistenceEffects

\* The delete button of a note in the note panel (line 1359).
DeleteNote(id) ==
  /\ view = "READER"
  /\ currentBook # Null
  /\ \E k \in DOMAIN notes : notes[k].id = id /\ notes[k].bookId = currentBook[1].id
  /\ notes' = SelectSeq(notes, LAMBDA n : n.id # id)
  /\ UNCHANGED << books, readerVars, batchVars, toast, blobs, tasks, nextId, nextNoteId >>
  /\ UNCHANGED restVars
  /\ PersistenceEffects

\* showToast's `setTimeout(() => setToast(null), 4000)`
ToastExpire ==
  /\ toast # Null
  /\ toast' = Null
  /\ UNCHANGED << libVars, readerVars, batchVars, blobs, tasks, nextId, nextNoteId >>
  /\ UNCHANGED restVars
  /\ PersistenceEffects

\* No handler reads `toast`; the model lets the 4 s timer of a toast fire before
\* the next handler runs.
Quiet == toast = Null

Next ==
  \/ ToastExpire
  \/ \E files \in FileLists : Quiet /\ HandleFileUploadStart(files)
  \/ \E t \in BagToSet(tasks), ok \in BOOLEAN : Quiet /\ HandleFileUploadResume(t, ok)
  \/ \E id \in 1..MaxBooks : Quiet /\ DeleteBookStart(id)
  \/ \E t \in BagToSet(tasks), ok \in BOOLEAN : Quiet /\ DeleteBookResume(t, ok)
  \/ Quiet /\ OpenDeleteModal
  \/ Quiet /\ CloseDeleteModal
  \/ \E id \in 1..MaxBooks : Quiet /\ ToggleBookForDeletion(id)
  \/ Quiet /\ ToggleAllForDeletion
  \/ Quiet /\ ExecuteBatchDeleteStart
  \/ \E t \in BagToSet(tasks), ok \in BOOLEAN : Quiet /\ ExecuteBatchDeleteResume(t, ok)
  \/ \E s \in EditStatuses : Quiet /\ UpdateBookMetadata([status |-> s])
  \/ \E book \in SeqToSet(books) : Quiet /\ OpenBookStart(book, 1)
  \/ \E t \in BagToSet(tasks), data \in {"data", "absent", "error"} :
        Quiet /\ OpenBookResume(t, data)
  \/ Quiet /\ CloseBook
  \/ \E in \in NoteInputs : Quiet /\ SaveNote(in[1], in[2])
  \/ \E id \in 1..MaxNotes : Quiet /\ DeleteNote(id)

Spec == Init /\ [][Next]_vars

\* The single-document deletion path on its own: uploads of one file started
\* while no handler is suspended, deleteBook, the reader (one openBook
\* suspended at a time) and its notes. Every behaviour of SpecDelete is a
\* behaviour of Spec.
NextDelete ==
  \/ ToastExpire
  \/ \E files \in { << FileA >> } : Quiet /\ tasks = EmptyBag /\ HandleFileUploadStart(files)
  \/ \E t \in BagToSet(tasks), ok \in BOOLEAN : Quiet /\ HandleFileUploadResume(t, ok)
  \/ \E id \in 1..MaxBooks : Quiet /\ DeleteBookStart(id)
  \/ \E t \in BagToSet(tasks), ok \in BOOLEAN : Quiet /\ DeleteBookResume(t, ok)
  \/ \E book \in SeqToSet(books) : 
        /\ Quiet
        /\ \A t \in BagToSet(tasks) : t.op # "openBook"
        /\ OpenBookStart(book, 1)
  \/ \E t \in BagToSet(tasks), data \in {"data", "absent", "error"} :
        Quiet /\ OpenBookResume(t, data)
  \/ Quiet /\ CloseBook
  \/ \E in \in NoteInputs : Quiet /\ SaveNote(in[1], in[2])

SpecDelete == Init /\ [][NextDelete]_vars

\* The library page on its own: uploads, deleteBook and the batch delete of
\* the modal, without the reader. Every behaviour of SpecUpload is a
\* behaviour of Spec.
NextUpload ==
  \/ ToastExpire
  \/ \E files \in FileLists : Quiet /\ HandleFileUploadStart(files)
  \/ \E t \in BagToSet(tasks), ok \in BOOLEAN : Quiet /\ HandleFileUploadResume(t, ok)
  \/ \E id \in 1..MaxBooks : Quiet /\ DeleteBookStart(id)
  \/ \E t \in BagToSet(tasks), ok \in BOOLEAN : Quiet /\ DeleteBookResume(t, ok)
  \/ Quiet /\ OpenDeleteModal
  \/ Quiet /\ CloseDeleteModal
  \/ \E id \in 1..MaxBooks : Quiet /\ ToggleBookForDeletion(id)
  \/ Quiet /\ ToggleAllForDeletion
  \/ Quiet /\ ExecuteBatchDeleteStart
  \/ \E t \in BagToSet(tasks), ok \in BOOLEAN : Quiet /\ ExecuteBatchDeleteResume(t, ok)

SpecUpload == Init /\ [][NextUpload]_vars

\* Reading: uploads of one file started while no handler is suspended, opening,
\* the load of the payload, paging and closing.
NextReader ==
  \/ ToastExpire
  \/ \E files \in { << FileA >> } : Quiet /\ tasks = EmptyBag /\ HandleFileUploadStart(files)
  \/ \E t \in BagToSet(tasks), ok \in BOOLEAN : Quiet /\ HandleFileUploadResume(t, ok)
  \/ \E book \in SeqToSet(books) : Quiet /\ OpenBookStart(book, 1)
  \/ \E t \in BagToSet(tasks), data \in {"data", "absent", "error"} :
        Quiet /\ OpenBookResume(t, data)
  \/ Quiet /\ OnDocumentLoadSuccess
  \/ Quiet /\ PrevPage
  \/ Quiet /\ NextPage
  \/ Quiet /\ CloseBook

SpecReader == Init /\ [][NextReader]_vars

\* Categories: uploads of one file and openings started while no handler is
\* suspended, the categories page, closing, the category select of the reader.
NextCategory ==
  \/ ToastExpire
  \/ \E files \in { << FileA >> } : Quiet /\ tasks = EmptyBag /\ HandleFileUploadStart(files)
  \/ \E t \in BagToSet(tasks), ok \in BOOLEAN : Quiet /\ HandleFileUploadResume(t, ok)
  \/ \E book \in SeqToSet(books) : Quiet /\ tasks = EmptyBag /\ OpenBookStart(book, 1)
  \/ \E t \in BagToSet(tasks), data \in {"data", "absent", "error"} :
        Quiet /\ OpenBookResume(t, data)
  \/ Quiet /\ CloseBook
  \/ Quiet /\ ShowCategories
  \/ Quiet /\ BackToLibrary
  \/ \E name \in CategoryNames : Quiet /\ AddCategory(name)
  \/ \E id \in 1..MaxCats : Quiet /\ DeleteCategory(id)
  \/ \E c \in CategoryOptions : Quiet /\ UpdateBookMetadata([category |-> c])

SpecCategory == Init /\ [][NextCategory]_vars

\* A library of one document d, opened from its card and loaded in the reader.
ReaderWith(d, ns) ==
  /\ books = << [ NewBook(d, FileA) EXCEPT !.status = "reading",
                                           !.totalPages = Len(PdfOf(d)) ] >>
  /\ notes = ns
  /\ view = "READER"
  /\ currentBook = Some(NewBook(d, FileA))
  /\ currentBookData = Some(d)
  /\ pageNumber = 1
  /\ numPages = Len(PdfOf(d))
  /\ booksToDelete = << >>
  /\ isDeleteModalOpen = FALSE
  /\ toast = Null
  /\ blobs = { d }
  /\ tasks = EmptyBag
  /\ nextId = d + 1
  /\ nextNoteId = 1
  /\ categories = << >>
  /\ nextCatId = 1
  /\ loadingPdf = Null
  /\ isSearching = FALSE
  /\ temporaryHighlight = Null
  /\ passTimer = FALSE
  /\ expiryTimers = << >>
  /\ marked = {}
  /\ groupingMode = "none"
  /\ sortMode = "recent"
  /\ storage = Stored(books, notes, categories)
  /\ boot = [phase |-> "running"]

\* The same with no note saved.
ReaderOn(d) == ReaderWith(d, << >>)

\* Searching: the reader on any of the payloads, the search panel open.
InitSearch ==
  /\ \E d \in DOMAIN Pdfs : ReaderOn(d)
  /\ searchQuery = << >>
  /\ searchResults = << >>
  /\ searchCalls = << >>

NextSearch ==
  \/ ToastExpire
  \/ \E q \in Queries : Quiet /\ SetSearchQuery(q)
  \/ Quiet /\ HandleSearchStart
  \/ \E t \in BagToSet(tasks), ok \in BOOLEAN : Quiet /\ HandleSearchResume(t, ok)

SpecSearch == InitSearch /\ [][NextSearch]_vars

\* Searches on the short payloads, for a text they hold and one they do not.
InitSearchShort ==
  /\ \E d \in { 1, 2 } : ReaderOn(d)
  /\ searchQuery = << >>
  /\ searchResults = << >>
  /\ searchCalls = << >>

NextSearchShort ==
  \/ ToastExpire
  \/ \E q \in { << "t" >>, << "x" >> } : Quiet /\ SetSearchQuery(q)
  \/ Quiet /\ HandleSearchStart
  \/ \E t \in BagToSet(tasks), ok \in BOOLEAN : Quiet /\ HandleSearchResume(t, ok)

SpecSearchShort == InitSearchShort /\ [][NextSearchShort]_vars

\* Each promise handleSearch awaits settles (the parse, getPage, getTextContent
\* return or fail), and the 4 s timeout of a toast fires.
SpecSearchFair ==
  /\ SpecSearchShort
  /\ WF_vars(ToastExpire)
  /\ WF_vars(\E t \in BagToSet(tasks), ok \in BOOLEAN : Quiet /\ HandleSearchResume(t, ok))

\* Highlighting: the reader on one of the short payloads, the search panel
\* open with the results of a finished search for "t".
InitHighlight ==
  /\ \E d \in { 1, 2 } :
        /\ ReaderOn(d)
        /\ searchResults = ScanFrom(PdfOf(d), << "t" >>, 1, << >>)
  /\ searchQuery = << "t" >>
  /\ searchCalls = << [query |-> << "t" >>, started |-> TRUE] >>

NextHighlight ==
  \/ \E q \in Targets : Quiet /\ SetSearchQuery(q)
  \/ \E k \in DOMAIN searchResults : Quiet /\ ClickSearchResult(k)
  \/ \E rendered \in BOOLEAN : Quiet /\ HighlightPass(rendered)
  \/ Quiet /\ HighlightExpire
  \/ Quiet /\ PrevPage
  \/ Quiet /\ NextPage

SpecHighlight == InitHighlight /\ [][NextHighlight]_vars

\* A timeout of setTimeout that is pending fires: the browser runs it once its
\* delay has passed, whatever the user does.
SpecHighlightFair == SpecHighlight /\ WF_vars(HighlightExpire)
\* The settings panel: uploads of one file and deletions started while no
\* handler is suspended, openings started while at most a deletion is, closing,
\* the selects and the stars.
NextUpdate ==
  \/ ToastExpire
  \/ \E files \in { << FileA >> } : Quiet /\ tasks = EmptyBag /\ HandleFileUploadStart(files)
  \/ \E t \in BagToSet(tasks) : Quiet /\ HandleFileUploadResume(t, TRUE)
  \/ \E id \in 1..MaxBooks : Quiet /\ tasks = EmptyBag /\ DeleteBookStart(id)
  \/ \E t \in BagToSet(tasks) : Quiet /\ DeleteBookResume(t, TRUE)
  \/ \E book \in SeqToSet(books) :
        /\ Quiet
        /\ \A t \in BagToSet(tasks) : t.op = "deleteBook"
        /\ OpenBookStart(book, 1)
  \/ \E t \in BagToSet(tasks) : Quiet /\ OpenBookResume(t, "data")
  \/ Quiet /\ CloseBook
  \/ \E updates \in MetadataUpdates : Quiet /\ UpdateBookMetadata(updates)

SpecUpdate == Init /\ [][NextUpdate]_vars

\* The notes an earlier session saved for document d, the newest first; their
\* ids are not among those this session draws.
SavedNotes(d) ==
  << [ id |-> 12, bookId |-> d, pageNumber |-> 2, text |-> "", highlight |-> "s",
       createdAt |-> 12 ],
     [ id |-> 11, bookId |-> d, pageNumber |-> 1, text |-> "t", highlight |-> "",
       createdAt |-> 11 ] >>

\* The note panel: the reader on one of the short payloads with the saved
\* notes of its document, the page buttons, saving and deleting notes.
InitNotes ==
  /\ \E d \in { 1, 2 } : ReaderWith(d, SavedNotes(d))
  /\ searchQuery = << >>
  /\ searchResults = << >>
  /\ searchCalls = << >>

NextNotes ==
  \/ ToastExpire
  \/ \E in \in NotePanelInputs : Quiet /\ SaveNote(in[1], in[2])
  \/ \E id \in 1..MaxNotes \cup { 11, 12 } : Quiet /\ DeleteNote(id)
  \/ Quiet /\ PrevPage
  \/ Quiet /\ NextPage

SpecNotes == InitNotes /\ [][NextNotes]_vars

\* Every operation that writes the library, the notes or the categories, each
\* started while no handler is suspended (one operation at a time); the batch is
\* selected with the select-all button, the metadata written is the category.
NextPersist ==
  \/ ToastExpire
  \/ \E files \in { << FileA >> } : Quiet /\ tasks = EmptyBag /\ HandleFileUploadStart(files)
  \/ \E t \in BagToSet(tasks) : Quiet /\ HandleFileUploadResume(t, TRUE)
  \/ \E id \in 1..MaxBooks : Quiet /\ tasks = EmptyBag /\ DeleteBookStart(id)
  \/ \E t \in BagToSet(tasks) : Quiet /\ DeleteBookResume(t, TRUE)
  \/ Quiet /\ tasks = EmptyBag /\ OpenDeleteModal
  \/ Quiet /\ tasks = EmptyBag /\ ToggleAllForDeletion
  \/ Quiet /\ tasks = EmptyBag /\ ExecuteBatchDeleteStart
  \/ \E t \in BagToSet(tasks) : Quiet /\ ExecuteBatchDeleteResume(t, TRUE)
  \/ \E c \in CategoryOptions : Quiet /\ tasks = EmptyBag /\ UpdateBookMetadata([category |-> c])
  \/ \E book \in SeqToSet(books) : Quiet /\ tasks = EmptyBag /\ OpenBookStart(book, 1)
  \/ \E t \in BagToSet(tasks) : Quiet /\ OpenBookResume(t, "data")
  \/ Quiet /\ tasks = EmptyBag /\ CloseBook
  \/ \E in \in NoteInputs : Quiet /\ tasks = EmptyBag /\ SaveNote(in[1], in[2])
  \/ \E id \in 1..MaxNotes : Quiet /\ tasks = EmptyBag /\ DeleteNote(id)
  \/ Quiet /\ tasks = EmptyBag /\ ShowCategories
  \/ Quiet /\ tasks = EmptyBag /\ BackToLibrary
  \/ \E name \in CategoryNames : Quiet /\ tasks = EmptyBag /\ AddCategory(name)
  \/ \E id \in 1..MaxCats : Quiet /\ tasks = EmptyBag /\ DeleteCategory(id)

SpecPersist == Init /\ [][NextPersist]_vars

\* The transient state of App at its useState defaults, nothing in flight.
AtRest ==
  /\ view = "LIBRARY"
  /\ currentBook = Null
  /\ currentBookData = Null
  /\ pageNumber = 1
  /\ numPages = 0
  /\ booksToDelete = << >>
  /\ isDeleteModalOpen = FALSE
  /\ toast = Null
  /\ tasks = EmptyBag
  /\ loadingPdf = Null
  /\ searchQuery = << >>
  /\ isSearching = FALSE
  /\ searchResults = << >>
  /\ searchCalls = << >>
  /\ temporaryHighlight = Null
  /\ passTimer = FALSE
  /\ expiryTimers = << >>
  /\ marked = {}
  /\ groupingMode = "none"
  /\ sortMode = "recent"

\* Documents an earlier session left: two uploaded in the same millisecond with
\* the same rating, progress and page count, two with the same title, one in a
\* category that is gone.
SavedBook(id, title, date, status, rating, current, total, category) ==
  [ id |-> id, title |-> title, author |-> "Desconhecido", uploadDate |-> date,
    totalPages |-> total, currentPage |-> current, status |-> status,
    category |-> category, rating |-> rating ]

SavedBooks ==
  { SavedBook(1, << "a" >>, 1, "next", 0, 1, 0, Null),
    SavedBook(2, << "b" >>, 2, "completed", 5, 3, 10, Some(1)),
    SavedBook(3, << "B" >>, 2, "completed", 5, 3, 10, Some(2)),
    SavedBook(4, << "a" >>, 4, "reading", 3, 1, 10, Some(9)) }

\* The libraries of at most MaxShelf of them, in any order.
SavedLibraries ==
  { bs \in UNION { [1..n -> SavedBooks] : n \in 0..MaxShelf } :
      \A j, k \in DOMAIN bs : j # k => bs[j] # bs[k] }

\* The categories with them: none, two of the same name, one named as a
\* member of Object.prototype is.
SavedCategories ==
  { << >>,
    << [id |-> 1, name |-> << "S" >>], [id |-> 2, name |-> << "S" >>] >>,
    << [id |-> 1, name |-> << "S" >>],
       [id |-> 2, name |-> << "c", "o", "n", "s", "t", "r", "u", "c", "t", "o", "r" >>] >> }

\* What localStorage holds when the page is loaded: under each key nothing, a
\* text that is no JSON, or what an earlier session wrote.
SavedStorage ==
  [ books : { Absent, Corrupt } \cup { StringifyBooks(bs) : bs \in SavedLibraries },
    notes : { Absent, Corrupt, Json(SavedNotes(1)) },
    categories : { Absent, Corrupt } \cup { Json(cs) : cs \in SavedCategories } ]

\* Loading the page: App rendered once with the useState defaults, its
\* effects not yet run.
InitHydrate ==
  /\ AtRest
  /\ books = << >>
  /\ notes = << >>
  /\ categories = << >>
  /\ storage \in SavedStorage
  /\ blobs = IF storage.books.kind = "json" THEN BookIds(storage.books.value) ELSE {}
  /\ nextId = 5
  /\ nextNoteId = 1
  /\ nextCatId = 3
  /\ boot = [phase |-> "mounting"]

NextHydrate ==
  \/ MountEffects
  \/ HydrateRender

SpecHydrate == InitHydrate /\ [][NextHydrate]_vars

\* Arranging: the library page over a saved library, the view menu.
InitArrange ==
  /\ AtRest
  /\ books \in SavedLibraries
  /\ categories \in SavedCategories
  /\ notes = << >>
  /\ blobs = BookIds(books)
  /\ nextId = 5
  /\ nextNoteId = 1
  /\ nextCatId = 3
  /\ storage = Stored(books, notes, categories)
  /\ boot = [phase |-> "running"]

NextArrange ==
  \/ \E mode \in GroupingMode : SetGroupingMode(mode)
  \/ \E mode \in SortMode : SetSortMode(mode)

SpecArrange == InitArrange /\ [][NextArrange]_vars

\* Navigation: a library of two documents an earlier session saved, with the
\* notes of the first; opening (one at a time), the load of the payload, the
\* page buttons, the page input, a search for "t" and its results, the quoted
\* text of a note, closing.
InitNav ==
  /\ AtRest
  /\ books = << SavedBook(1, << "a" >>, 1, "reading", 0, 1, 2, Null),
                SavedBook(2, << "b" >>, 2, "reading", 0, 1, 3, Null) >>
  /\ notes = SavedNotes(1)
  /\ categories = << >>
  /\ blobs = { 1, 2 }
  /\ nextId = 3
  /\ nextNoteId = 1
  /\ nextCatId = 1
  /\ storage = Stored(books, notes, categories)
  /\ boot = [phase |-> "running"]

NextNav ==
  \/ ToastExpire
  \/ \E book \in SeqToSet(books) : Quiet /\ tasks = EmptyBag /\ OpenBookStart(book, 1)
  \/ \E t \in BagToSet(tasks) : Quiet /\ OpenBookResume(t, "data")
  \/ Quiet /\ OnDocumentLoadSuccess
  \/ Quiet /\ PrevPage
  \/ Quiet /\ NextPage
  \/ \E pageInput \in PageInputs : Quiet /\ PageInputSubmit(pageInput)
  \/ Quiet /\ SetSearchQuery(<< "t" >>)
  \/ Quiet /\ tasks = EmptyBag /\ HandleSearchStart
  \/ \E t \in BagToSet(tasks), ok \in BOOLEAN : Quiet /\ HandleSearchResume(t, ok)
  \/ \E k \in DOMAIN searchResults : Quiet /\ ClickSearchResult(k)
  \/ \E n \in DOMAIN notes : Quiet /\ ClickNoteHighlight(n)
  \/ Quiet /\ CloseBook

SpecNav == InitNav /\ [][NextNav]_vars

\* Reopening: a library an earlier session left with documents on pages 2, 3
\* and 1; the cards, the load of the payload, closing, and no page navigation.
InitReopen ==
  /\ AtRest
  /\ books = << SavedBook(1, << "a" >>, 1, "reading", 0, 2, 2, Null),
                SavedBook(2, << "b" >>, 2, "next", 0, 3, 3, Null),
                SavedBook(3, << "c" >>, 3, "paused", 0, 1, 0, Null) >>
  /\ notes = << >>
  /\ categories = << >>
  /\ blobs = { 1, 2, 3 }
  /\ nextId = 4
  /\ nextNoteId = 1
  /\ nextCatId = 1
  /\ storage = Stored(books, notes, categories)
  /\ boot = [phase |-> "running"]

NextReopen ==
  \/ \E book \in SeqToSet(books) : OpenBookStart(book, 1)
  \/ \E t \in BagToSet(tasks) : OpenBookResume(t, "data")
  \/ OnDocumentLoadSuccess
  \/ CloseBook

SpecReopen == InitReopen /\ [][NextReopen]_vars

\* ================================================================== claims
TaskSet == BagToSet(tasks)

HasNotesOf(ns, id) == \E k \in DOMAIN ns : ns[k].bookId = id

StatusOf(bs, id) == FindBook(bs, id)[1].status

ToastIs(text) == toast # Null /\ toast[1].message[1] = text

C2_DeleteCascades ==
  [][ \A t \in TaskSet :
        (t.op = "deleteBook" /\ DeleteBookResume(t, TRUE)) =>
          /\ t.id \notin BookIds(books')
          /\ ~HasNotesOf(notes', t.id)
          /\ t.id \notin blobs'
          /\ books' = SelectSeq(books, LAMBDA b : b.id # t.id)
          /\ notes' = SelectSeq(notes, LAMBDA n : n.bookId # t.id) ]_vars

\* A delete has just succeeded, a note was saved and has gone, another book is
\* still in the library.
C2_Witness ==
  /\ ToastIs("Livro excluído com sucesso!")
  /\ nextNoteId > 1
  /\ notes = << >>
  /\ Len(books) >= 1

\* C3: when the blob delete of deleteBook(id) fails, the books, the notes and
\* the open book are as before the continuation ran.
C3_FailedDeleteAborts ==
  [][ \A t \in TaskSet :
        (t.op = "deleteBook" /\ DeleteBookResume(t, FALSE)) =>
          UNCHANGED << books, notes, currentBook >> ]_vars

\* A delete has just failed on a book that has a note and is still there.
C3_Witness ==
  /\ ToastIs("Erro ao excluir livro.")
  /\ \E k \in DOMAIN notes : notes[k].bookId \in BookIds(books)

\* The titles a toast reports as deleted.
ReportedTitles(tst) ==
  IF tst # Null /\ tst[1].message[1] = "Livro(s) excluído(s) com sucesso!"
  THEN tst[1].message[2][1]
  ELSE << >>

\* C4: when the blob delete of one id of a batch fails, every other id of the
\* batch has lost its blob, its book and its notes when the batch ends, and the
\* titles reported are those of the books removed.
C4_BatchPastFailure ==
  [][ \A t \in TaskSet :
        (t.op = "batchDelete" /\ ExecuteBatchDeleteResume(t, FALSE)) =>
          /\ \A j \in DOMAIN t.idsToDelete \ { t.i } :
               /\ t.idsToDelete[j] \notin blobs'
               /\ t.idsToDelete[j] \notin BookIds(books')
               /\ ~HasNotesOf(notes', t.idsToDelete[j])
          /\ SeqToSet(ReportedTitles(toast')) =
               { books[k].title : k \in { k \in DOMAIN books :
                                            books[k].id \notin BookIds(books') } } ]_vars

\* The step is the end of a deleteBook or of a batch delete (its last delete
\* succeeding, or any of its deletes failing).
DeleteEnds(t) ==
  \/ t.op = "deleteBook" /\ \E ok \in BOOLEAN : DeleteBookResume(t, ok)
  \/ /\ t.op = "batchDelete"
     /\ \/ ExecuteBatchDeleteResume(t, FALSE)
        \/ t.i = Len(t.idsToDelete) /\ ExecuteBatchDeleteResume(t, TRUE)

DeletedIds(t) == IF t.op = "deleteBook" THEN { t.id } ELSE SeqToSet(t.idsToDelete)

\* C5: when a deleteBook or a batch delete has finished, each id it was asked to
\* delete has its book in the library if and only if it has its blob in the store.
C5_RecordIffBlob ==
  [][ \A t \in TaskSet :
        DeleteEnds(t) =>
          \A id \in DeletedIds(t) : (id \in BookIds(books')) <=> (id \in blobs') ]_vars

\* C6: a book that a step adds to the library has its blob in the store.
C6_BlobBeforeRecord ==
  [][ \A k \in DOMAIN books' :
        books'[k].id \notin BookIds(books) => books'[k].id \in blobs' ]_vars

\* An upload of two books has just finished.
C6_Witness ==
  /\ toast # Null
  /\ toast[1].message = << "livro(s) adicionado(s)", 2 >>
  /\ Len(books) = 2

\* The step is the end of the upload t: no continuation of it is left suspended.
UploadEnds(t) ==
  /\ t.op = "upload"
  /\ \E ok \in BOOLEAN : HandleFileUploadResume(t, ok)
  /\ BagCardinality(tasks') < BagCardinality(tasks)

\* C7: an upload batch in which one blob write failed (and no file read did) ends
\* with a book and a blob for every other PDF of the batch, and a reported count
\* equal to the books added.
C7_UploadPastFailure ==
  [][ \A t \in TaskSet :
        (UploadEnds(t) /\ ~(t.pc = "read" /\ HandleFileUploadResume(t, FALSE))) =>
          /\ Len(books') - Len(books) >= PdfCountFrom(t.files, 1) - 1
          /\ \A k \in DOMAIN books' : books'[k].id \in BookIds(books) \cup blobs'
          /\ (toast' # Null /\ toast'[1].type = "success") =>
               toast'[1].message[2] = Len(books') - Len(books) ]_vars

\* C8: while an async handler stays suspended over a step, the step changes
\* neither the books nor the notes.
C8_MutationsSerialized ==
  [][ (\E t \in TaskSet : CopiesIn(t, tasks') >= CopiesIn(t, tasks)) =>
        UNCHANGED << books, notes >> ]_vars

\* The step is the successful end of a deleteBook or of a batch delete.
DeleteSucceeds(t) ==
  \/ t.op = "deleteBook" /\ DeleteBookResume(t, TRUE)
  \/ t.op = "batchDelete" /\ t.i = Len(t.idsToDelete) /\ ExecuteBatchDeleteResume(t, TRUE)

Opens(t) == t.op = "openBook" /\ OpenBookResume(t, "data")

\* C10: a successful open of a book whose library status is 'next' sets it to
\* 'reading', a successful open of any other book leaves its status, and only
\* openBook and updateBookMetadata change the status of a book.
C10_StatusTransitions ==
  [][ /\ \A t \in TaskSet :
           (Opens(t) /\ t.book.id \in BookIds(books)) =>
             StatusOf(books', t.book.id) =
               (IF StatusOf(books, t.book.id) = "next" THEN "reading"
                ELSE StatusOf(books, t.book.id))
      /\ \A id \in BookIds(books) \cap BookIds(books') :
           StatusOf(books', id) # StatusOf(books, id) =>
             \/ \E t \in TaskSet : Opens(t)
             \/ \E st \in BookStatus : UpdateBookMetadata([status |-> st]) ]_vars

\* The page count react-pdf has reported for the open document: 0 while the
\* payload is still loading.
ReportedPages ==
  IF currentBookData # Null /\ loadingPdf = Null THEN Len(PdfOf(currentBookData[1])) ELSE 0

\* C11: closeBook on an open document sets its currentPage to the reader's page
\* and its totalPages to the page count reported for it when that is > 0, leaves
\* its other fields and the other documents as they were, and closes the reader.
C11_CloseWritesProgress ==
  [][ (CloseBook /\ currentBook # Null) =>
        /\ books' = [ k \in DOMAIN books |->
                        IF books[k].id = currentBook[1].id
                        THEN [ books[k] EXCEPT
                                 !.currentPage = pageNumber,
                                 !.totalPages = IF ReportedPages > 0 THEN ReportedPages
                                                ELSE @ ]
                        ELSE books[k] ]
        /\ currentBook' = Null
        /\ view' = "LIBRARY" ]_vars

\* C12: deleteCategory(c) removes c from the categories, clears the category of
\* the documents that had it, changing no other field of theirs, and leaves
\* every other document as it was; no document is removed or moved.
C12_DeleteCategoryClears ==
  [][ \A c \in 1..MaxCats :
        DeleteCategory(c) =>
          /\ c \notin CategoryIds(categories')
          /\ \A d \in CategoryIds(categories) \ {c} : d \in CategoryIds(categories')
          /\ Len(books') = Len(books)
          /\ \A k \in DOMAIN books :
                IF books[k].category = Some(c)
                THEN /\ books'[k].category = Null
                     /\ \A f \in DOMAIN books[k] \ {"category"} :
                           books'[k][f] = books[k][f]
                ELSE books'[k] = books[k] ]_vars

\* A category has just been removed; a document that has been opened has no
\* category and another still has the remaining one.
C12_Witness ==
  /\ ToastIs("Categoria removida.")
  /\ \E j, k \in DOMAIN books :
        /\ books[j].status = "reading" /\ books[j].category = Null
        /\ books[k].category # Null

\* C13: every document's category is absent or the id of a category that
\* exists, in every reachable state.
C13_CategoryExists ==
  \A k \in DOMAIN books :
    books[k].category = Null \/ books[k].category[1] \in CategoryIds(categories)

\* A category has been deleted and another is still in use.
C13_Witness ==
  /\ nextCatId - 1 > Len(categories)
  /\ \E k \in DOMAIN books : books[k].category # Null

\* C14: the result list never holds more than 50 results, and its pages are
\* strictly ascending.
C14_SearchBounded ==
  /\ Len(searchResults) <= 50
  /\ \A j, k \in DOMAIN searchResults :
        j < k => searchResults[j].page < searchResults[k].page

\* The offsets in `text` at which a stretch of it reads as `query`, case aside.
OccurrencesIn(text, query) ==
  { i \in 0..(Len(text) - Len(query)) :
      ToLowerCase(SubSeq(text, i + 1, i + Len(query))) = ToLowerCase(query) }

\* The case-folded page text holds the case-folded query somewhere.
FoldedContains(text, query) ==
  LET ft == ToLowerCase(text)
      fq == ToLowerCase(query)
  IN  \E i \in 0..(Len(ft) - Len(fq)) : SubSeq(ft, i + 1, i + Len(fq)) = fq

\* The snippet of the claim: 30 characters on each side of the first occurrence,
\* clamped to the text, between two ellipsis markers.
SnippetAround(text, query, i) ==
  << ".", ".", "." >>
    \o SubSeq(text, (IF i - 30 > 0 THEN i - 30 ELSE 0) + 1,
                    IF i + Len(query) + 30 < Len(text) THEN i + Len(query) + 30
                    ELSE Len(text))
    \o << ".", ".", "." >>

\* C15: a search that succeeds yields, for every page whose case-folded text
\* holds the case-folded query, exactly one result, whose snippet is the page
\* text 30 characters around the first occurrence (clamped) between ellipsis
\* markers, and no result for any other page.
C15_SnippetPerPage ==
  [][ \A t \in TaskSet :
        (t.op = "search" /\ HandleSearchResume(t, TRUE)) =>
          \A p \in DOMAIN PdfOf(t.data) :
            LET text == Join(PdfOf(t.data)[p])
                hits == { k \in DOMAIN searchResults' : searchResults'[k].page = p }
                occ == OccurrencesIn(text, t.query)
                first == CHOOSE i \in occ : \A j \in occ : i <= j
            IN  IF FoldedContains(text, t.query)
                THEN /\ Cardinality(hits) = 1
                     /\ occ # {}
                     /\ \A k \in hits :
                           searchResults'[k].text = SnippetAround(text, t.query, first)
                ELSE hits = {} ]_vars

\* C16: handleSearch called with an empty or whitespace-only query starts no
\* parse and leaves the result list empty.
C16_BlankQueryIsEmpty ==
  [][ (HandleSearchStart /\ Trim(searchQuery) = << >>) =>
        /\ tasks' = tasks
        /\ isSearching' = isSearching
        /\ searchResults' = << >> ]_vars

\* A search started after the call numbered n.
StartedAfter(n) ==
  \E k \in DOMAIN searchCalls : k > n /\ searchCalls[k].started

\* C17: the results of a search arriving after a later search was started, and
\* after that one has ended, are discarded: the list stays as it is.
C17_StaleResultsDiscarded ==
  [][ \A t \in TaskSet :
        ( /\ t.op = "search"
          /\ HandleSearchResume(t, TRUE)
          /\ StartedAfter(t.n)
          /\ \A u \in BagToSet(tasks') : u.op # "search" ) =>
          searchResults' = searchResults ]_vars

\* a occurs in b as a run of consecutive characters.
OccursIn(a, b) == \E i \in 0..(Len(b) - Len(a)) : SubSeq(b, i + 1, i + Len(a)) = a

\* C18: on a relocation pass over the rendered page a token is marked if and
\* only if, on the normalized texts, the token is longer than 3 characters and
\* the target contains it, or the target is longer than 3 characters and the
\* token contains the target; the pass takes no earlier mark away.
C18_MarkedIffContained ==
  [][ HighlightPass(TRUE) =>
        LET target == Normalize(temporaryHighlight[1])
            spans == Spans(TRUE)
        IN  \A k \in DOMAIN spans :
              LET token == Normalize(spans[k])
              IN  k \in marked' <=>
                    \/ k \in marked
                    \/ Len(token) > 3 /\ OccursIn(token, target)
                    \/ Len(target) > 3 /\ OccursIn(target, token) ]_vars

\* A pass for the target "then" has marked the token "then" of the third page
\* of the second payload, and not the token " OCEAN\n" before it.
C18_Witness ==
  /\ currentBookData = Some(2)
  /\ pageNumber = 3
  /\ expiryTimers # << >>
  /\ expiryTimers[Len(expiryTimers)].target = << "t", "h", "e", "n" >>
  /\ marked = { 2 }

\* The example of the claim: the texts "elephant" and "the elephant sat".
ElephantText == << "e", "l", "e", "p", "h", "a", "n", "t" >>
ElephantSentence == << "t", "h", "e", " " >> \o ElephantText \o << " ", "s", "a", "t" >>

\* C19: a token whose normalized length is at most 3 is never marked by a
\* pass, a target whose normalized length is at most 3 marks nothing, and the
\* token "elephant" is marked for the target "the elephant sat".
C19_ShortNeverMarked ==
  [][ HighlightPass(TRUE) =>
        LET target == Normalize(temporaryHighlight[1])
            spans == Spans(TRUE)
        IN  /\ \A k \in DOMAIN spans :
                  Len(Normalize(spans[k])) <= 3 /\ k \in marked' => k \in marked
            /\ Len(target) <= 3 => marked' = marked
            /\ \A k \in DOMAIN spans :
                  /\ target = ElephantSentence
                  /\ Normalize(spans[k]) = ElephantText
                  => k \in marked' ]_vars

\* A pass for "the ELEPHANT \nsat " has marked "elephant" alone on the page
\* "the elephant sat".
C19_Witness ==
  /\ currentBookData = Some(1)
  /\ pageNumber = 1
  /\ expiryTimers # << >>
  /\ Normalize(expiryTimers[Len(expiryTimers)].target) = ElephantSentence
  /\ Normalize(Spans(TRUE)[2]) = ElephantText
  /\ marked = { 2 }

\* C20: the 3000 ms timer that clears a highlight is the one started by the
\* latest match of that highlight: no later match has started another timer
\* and the highlight is still the one the timer was started for.
C20_RetriggerRestartsTimer ==
  [][ (HighlightExpire /\ temporaryHighlight # Null) =>
        /\ Len(expiryTimers) = 1
        /\ temporaryHighlight = Some(expiryTimers[1].target) ]_vars

\* C21: whenever a pass has marked a token (its 3000 ms timeout is pending),
\* the highlight target eventually returns to none, with no user action needed.
C21_MarkedEventuallyCleared == (expiryTimers # << >>) ~> (temporaryHighlight = Null)

\* The timeout of a pass that marked a token has fired and cleared the target:
\* the class is still on the token, no timeout is left.
C21_Witness ==
  /\ view = "READER"
  /\ marked # {}
  /\ expiryTimers = << >>
  /\ temporaryHighlight = Null

\* No token of the page passes the containment test for the current target.
NoTokenMatches(rendered) ==
  LET target == Normalize(temporaryHighlight[1])
      spans == Spans(rendered)
  IN  \A k \in DOMAIN spans :
        LET token == Normalize(spans[k])
        IN  /\ ~(Len(token) > 3 /\ OccursIn(token, target))
            /\ ~(Len(target) > 3 /\ OccursIn(target, token))

\* C22: a pass that finds no matching token marks nothing, starts no expiry
\* timer, leaves the target as it is and raises no notice.
C22_NoMatchNoTimer ==
  [][ \A rendered \in BOOLEAN :
        (HighlightPass(rendered) /\ NoTokenMatches(rendered)) =>
          /\ marked' = marked
          /\ expiryTimers' = expiryTimers
          /\ temporaryHighlight' = temporaryHighlight
          /\ toast' = toast ]_vars

\* A pass has run for a target that is on no token of the page: nothing is
\* marked and no timeout is pending.
C22_Witness ==
  /\ view = "READER"
  /\ Truthy(temporaryHighlight)
  /\ ~passTimer
  /\ expiryTimers = << >>
  /\ marked = {}

\* The documents of all the buckets, bucket after bucket.
RECURSIVE Flatten(_)
Flatten(groups) ==
  IF groups = << >> THEN << >> ELSE Head(groups).books \o Flatten(Tail(groups))

\* b is a permutation of a.
IsPermutation(a, b) ==
  /\ Len(a) = Len(b)
  /\ \A x \in SeqToSet(a) \cup SeqToSet(b) :
        Cardinality({ k \in DOMAIN a : a[k] = x }) = Cardinality({ k \in DOMAIN b : b[k] = x })

\* C23: for every library, grouping and sorting the library page computes
\* buckets, and the documents of the buckets one after the other are exactly
\* the documents of the library, each once.
C23_ArrangeRoundTrip ==
  /\ ~GroupedBooks.threw
  /\ IsPermutation(books, Flatten(GroupedBooks.groups))

\* The place of a document in the library.
PlaceIn(list, b) == CHOOSE k \in DOMAIN list : list[k] = b

\* a is to be shown before b under the sort mode, or they rank the same.
RanksBefore(a, b, mode) ==
  CASE mode = "recent" -> a.uploadDate > b.uploadDate
    [] mode = "rating" -> a.rating > b.rating
    [] mode = "progress" -> a.currentPage > b.currentPage
    [] mode = "pages" -> a.totalPages > b.totalPages
    [] mode = "completed" ->
         \/ a.status = "completed" /\ b.status # "completed"
         \/ /\ (a.status = "completed") = (b.status = "completed")
            /\ LocaleCompare(a.title, b.title) < 0

\* C24: the sorted list is a permutation of the library in which no document
\* comes after one it ranks before, documents of the same rank are in the
\* order the library has them (the library itself is a state no sort writes).
C24_SortIsStablePermutation ==
  /\ IsPermutation(books, SortedBooks)
  /\ \A j, k \in DOMAIN SortedBooks :
        j < k =>
          /\ ~RanksBefore(SortedBooks[k], SortedBooks[j], sortMode)
          /\ ~RanksBefore(SortedBooks[j], SortedBooks[k], sortMode) =>
                PlaceIn(books, SortedBooks[j]) < PlaceIn(books, SortedBooks[k])

\* The library holds documents that tie and a sort mode other than the
\* default has been chosen.
C24_Witness ==
  /\ sortMode = "completed"
  /\ Len(books) = 3
  /\ \E j, k \in DOMAIN books :
        /\ j < k
        /\ ~RanksBefore(books[j], books[k], sortMode)
        /\ ~RanksBefore(books[k], books[j], sortMode)
  /\ SortedBooks # books

\* C25: the buckets are computed; each holds its documents in the order of
\* the sorted list; grouping by none gives one bucket with the whole sorted
\* list; grouping by category puts a document whose category is absent or is
\* no existing category in the bucket "Sem Categoria".
C25_GroupingKeepsOrder ==
  /\ ~GroupedBooks.threw
  /\ \A g \in DOMAIN GroupedBooks.groups :
        LET bucket == GroupedBooks.groups[g].books
        IN  \A j, k \in DOMAIN bucket :
              j < k => PlaceIn(SortedBooks, bucket[j]) < PlaceIn(SortedBooks, bucket[k])
  /\ groupingMode = "none" =>
        /\ Len(GroupedBooks.groups) = 1
        /\ GroupedBooks.groups[1].books = SortedBooks
  /\ groupingMode = "category" =>
        \A k \in DOMAIN books :
          (books[k].category = Null \/ books[k].category[1] \notin CategoryIds(categories)) =>
            \E g \in DOMAIN GroupedBooks.groups :
              /\ GroupedBooks.groups[g].key = LabelSemCategoria
              /\ books[k] \in SeqToSet(GroupedBooks.groups[g].books)

\* C26: updateBookMetadata called from the settings panel writes the given
\* fields into the document that has the id of the open one, leaves its other
\* fields and every other document as they were, and leaves the library as it
\* was when no document has that id.
C26_UpdateMergesOne ==
  [][ \A updates \in MetadataUpdates :
        UpdateBookMetadata(updates) =>
          /\ DOMAIN books' = DOMAIN books
          /\ \A k \in DOMAIN books :
                IF books[k].id = currentBook[1].id
                THEN \A f \in DOMAIN books[k] :
                       books'[k][f] = IF f \in DOMAIN updates THEN updates[f] ELSE books[k][f]
                ELSE books'[k] = books[k]
          /\ currentBook[1].id \notin BookIds(books) => books' = books ]_vars

\* The settings panel has set the status of an open document that deleteBook
\* took from the library, which holds another document.
C26_Witness ==
  /\ view = "READER"
  /\ currentBook # Null
  /\ currentBook[1].status = "paused"
  /\ currentBook[1].id \notin BookIds(books)
  /\ \E k \in DOMAIN books : books[k].status # "paused"

\* C27: saveNote with an empty body and an empty quoted text changes nothing;
\* otherwise the note list afterwards is one new note, of the open document
\* and the reader's page, with the body and the quoted text given and an id
\* no other note has, followed by the list as it was.
C27_SaveNotePrepends ==
  [][ \A in \in NotePanelInputs :
        SaveNote(in[1], in[2]) =>
          IF in[1] = "" /\ in[2] = ""
          THEN notes' = notes
          ELSE /\ Len(notes') = Len(notes) + 1
               /\ Tail(notes') = notes
               /\ Head(notes').bookId = currentBook[1].id
               /\ Head(notes').pageNumber = pageNumber
               /\ Head(notes').text = in[1]
               /\ Head(notes').highlight = in[2]
               /\ \A k \in DOMAIN notes : notes[k].id # Head(notes').id ]_vars

\* A note saved on page 2 stands before the two notes that were there.
C27_Witness ==
  /\ Len(notes) = 3
  /\ notes[1].pageNumber = 2
  /\ notes[1].id \notin { 11, 12 }
  /\ notes[2].id = 12
  /\ notes[3].id = 11

\* C28: the effects of the first render end with App mounted whatever the
\* three entries hold, and queue for each entry the value saved under it when
\* it is readable and nothing (the empty default stays) when it is absent or
\* unreadable; an unreadable entry does not keep the others from loading.
C28_HydrationTolerant ==
  [][ MountEffects =>
        /\ boot'.phase = "hydrating"
        /\ \A key \in StorageKeys :
              boot'[key] = IF storage[key].kind = "json"
                           THEN Some(ParseEntry(key, storage[key]))
                           ELSE Null ]_vars

\* C29: whenever App is mounted and running, each of the three entries of
\* localStorage is JSON text, and read back it is the books, the notes and
\* the categories in memory.
C29_WriteThrough ==
  boot.phase = "running" =>
    \A key \in StorageKeys :
      /\ storage[key].kind = "json"
      /\ ParseEntry(key, storage[key]) =
           (CASE key = "books" -> books [] key = "notes" -> notes [] OTHER -> categories)

\* A document in a category, a note of it and a category are in memory.
C29_Witness ==
  /\ \E k \in DOMAIN books : books[k].category # Null
  /\ notes # << >>
  /\ categories # << >>
  /\ tasks = EmptyBag

\* C30: in every reachable state the currentPage of every document is at
\* least 1.
C30_CurrentPageAtLeastOne == \A k \in DOMAIN books : books[k].currentPage >= 1

\* The first document, of two pages, was closed on page 3: the reader went
\* there while the page count shown was still that of the second document.
C30_Witness ==
  /\ view = "LIBRARY"
  /\ \E k \in DOMAIN books : books[k].id = 1 /\ books[k].currentPage = 3

\* The search started by the n-th call of handleSearch is still suspended.
SearchRunning(n) == \E t \in TaskSet : t.op = "search" /\ t.n = n

\* C31: every search that was started eventually ends, by success or by
\* failure, and the state in which it has ended has the searching flag false.
C31_SearchEventuallyEnds ==
  \A n \in 1..MaxSearches : SearchRunning(n) ~> (~SearchRunning(n) /\ ~isSearching)

\* A search was started and has ended by failure: no handler is suspended, the
\* error toast is up and the flag is false.
C31_Witness ==
  /\ \E k \in DOMAIN searchCalls : searchCalls[k].started
  /\ tasks = EmptyBag
  /\ ToastIs("Erro na pesquisa.")
  /\ ~isSearching

\* The step is the continuation of an openBook that fails: the document has
\* left the library meanwhile, or the store holds no payload for it, or the
\* read of the payload rejects.
OpenFails(t) ==
  /\ t.op = "openBook"
  /\ \E data \in { "data", "absent", "error" } :
        /\ OpenBookResume(t, data)
        /\ t.book.id \notin BookIds(books) \/ data # "data"

\* C32: an openBook that fails leaves the view, the open document, the reader
\* page and the status of every document as they were, and raises an error
\* toast.
C32_FailedOpenLeavesState ==
  [][ \A t \in TaskSet :
        OpenFails(t) =>
          /\ view' = view
          /\ currentBook' = currentBook
          /\ pageNumber' = pageNumber
          /\ BookIds(books') = BookIds(books)
          /\ \A id \in BookIds(books) : StatusOf(books', id) = StatusOf(books, id)
          /\ toast' # Null /\ toast'[1].type = "error" ]_vars

\* An open of a document that was deleted while the read of its payload was
\* awaited has failed: the library is empty, nothing is open, the toast of
\* the missing payload is up.
C32_Witness ==
  /\ ToastIs("O pergaminho parece estar danificado")
  /\ tasks = EmptyBag
  /\ books = << >>
  /\ view = "LIBRARY"
  /\ currentBook = Null

\* Each of the three entries is JSON text.
WellFormed(st) == \A key \in StorageKeys : st[key].kind = "json"

\* C33: while App starts over a well-formed localStorage, no step changes an
\* entry, and once App is running the books, the notes and the categories in
\* memory are what the entries hold.
C33_StartupKeepsSnapshot ==
  [][ (WellFormed(storage) /\ (MountEffects \/ HydrateRender)) =>
        /\ storage' = storage
        /\ boot'.phase = "running" => Stored(books', notes', categories') = storage' ]_vars

\* C34: in every reachable state the totalPages of each document is 0 or the
\* page count of that document's own payload.
C34_TotalPagesIsOwnCount ==
  \A k \in DOMAIN books : books[k].totalPages \in { 0, Len(PdfOf(books[k].id)) }

\* C35: whenever a document is open, currentBook has the status, the category
\* and the rating of the document of the library with its id.
C35_ReaderCopyAgrees ==
  currentBook # Null =>
    \A k \in DOMAIN books :
      books[k].id = currentBook[1].id =>
        /\ currentBook[1].status = books[k].status
        /\ currentBook[1].category = books[k].category
        /\ currentBook[1].rating = books[k].rating

\* C36: with no page navigation, no step of opening a document from its card,
\* loading it and closing it changes the currentPage of a document.
C36_ReopenKeepsPage ==
  [][ /\ DOMAIN books' = DOMAIN books
      /\ \A k \in DOMAIN books : books'[k].currentPage = books[k].currentPage ]_vars

\* C37: whenever no handleFileUpload is suspended, every blob of the store
\* is the payload of a document of the library.
C37_NoOrphanBlob ==
  (\A t \in TaskSet : t.op # "upload") => blobs \subseteq BookIds(books)

\* C38: whenever a document is open and the result list is not empty, the list
\* is what a search that was started finds in the payload of the open document.
C38_ResultsOfOpenDocument ==
  (view = "READER" /\ currentBookData # Null /\ searchResults # << >>) =>
    \E k \in DOMAIN searchCalls :
      /\ searchCalls[k].started
      /\ searchResults = ScanFrom(PdfOf(currentBookData[1]), searchCalls[k].query, 1, << >>)

\* C39: when a deleteBook or a batch delete completes successfully while a
\* document it did not delete is open, that document stays open: currentBook,
\* its payload and the view are unchanged.
C39_DeleteClosesOnlyItsOwn ==
  [][ \A t \in TaskSet :
        ( /\ DeleteSucceeds(t)
          /\ currentBook # Null
          /\ currentBook[1].id \notin DeletedIds(t) ) =>
          /\ currentBook' = currentBook
          /\ currentBookData' = currentBookData
          /\ view' = view ]_vars
====
